---------------------------- MODULE Spec2Model ----------------------------
(***************************************************************************)
(* Model of the grainery plugin host (src-tauri/src/plugins/mod.rs): the   *)
(* manifest validator, the install pipeline, the persisted plugin store    *)
(* and the runtime host broker.                                            *)
(*                                                                         *)
(* Strings that the code inspects character by character (plugin ids,      *)
(* versions, version ranges, paths, URL parts) are sequences of            *)
(* one-character strings; strings the code only compares as a whole        *)
(* (operation names, permission names, trust labels) are TLA+ strings.     *)
(***************************************************************************)
EXTENDS Integers, Sequences, FiniteSets, TLC

(***************************************************************************)
(* Characters and character classes                                        *)
(***************************************************************************)
UpperChars == <<"A","B","C","D","E","F","G","H","I","J","K","L","M",
                "N","O","P","Q","R","S","T","U","V","W","X","Y","Z">>

LowerChars == <<"a","b","c","d","e","f","g","h","i","j","k","l","m",
                "n","o","p","q","r","s","t","u","v","w","x","y","z">>

DigitChars == <<"0","1","2","3","4","5","6","7","8","9">>

Range(s) == { s[i] : i \in DOMAIN s }

UpperSet == Range(UpperChars)

LowerSet == Range(LowerChars)

DigitSet == Range(DigitChars)

AlphanumericSet == UpperSet \cup LowerSet \cup DigitSet

\* char::is_ascii_alphanumeric
is_ascii_alphanumeric(c) == c \in AlphanumericSet

\* the lower-case letter of each upper-case letter
LowerOf ==
    [ c \in UpperSet |->
        LowerChars[CHOOSE i \in DOMAIN UpperChars : UpperChars[i] = c] ]

\* char::to_ascii_lowercase
to_ascii_lowercase(c) == IF c \in UpperSet THEN LowerOf[c] ELSE c

\* str::to_ascii_lowercase, character by character
StrLower(s) == [ i \in DOMAIN s |-> to_ascii_lowercase(s[i]) ]

\* str::eq_ignore_ascii_case
eq_ignore_ascii_case(a, b) == StrLower(a) = StrLower(b)

\* str::contains(pat) for a non-empty pattern
StrContains(s, pat) ==
    \E i \in 1..Len(s) :
        /\ i + Len(pat) - 1 <= Len(s)
        /\ SubSeq(s, i, i + Len(pat) - 1) = pat

\* Option<T>: None is the empty tuple, Some(x) the one-element tuple
None == << >>

Some(x) == << x >>

IsSome(o) == o # None

Unwrap(o) == o[1]

\* str::strip_prefix: Some(the rest of s after prefix), or None
StripPrefix(s, prefix) ==
    IF Len(prefix) <= Len(s) /\ SubSeq(s, 1, Len(prefix)) = prefix
    THEN Some(SubSeq(s, Len(prefix) + 1, Len(s)))
    ELSE None

\* str::trim().is_empty(): only white space
TrimIsEmpty(s) == \A i \in DOMAIN s : s[i] = " "

\* the pieces of s between occurrences of the separator character
RECURSIVE SplitOn(_, _)
SplitOn(s, sep) ==
    IF \A i \in DOMAIN s : s[i] # sep
    THEN << s >>
    ELSE LET k == CHOOSE i \in DOMAIN s :
                      s[i] = sep /\ \A j \in 1..(i - 1) : s[j] # sep
         IN  << SubSeq(s, 1, k - 1) >> \o SplitOn(SubSeq(s, k + 1, Len(s)), sep)

\* lexicographic order of two strings by character (str::cmp on ASCII)
CharCode(c) ==
    IF c \in DigitSet
    THEN 48 + (CHOOSE i \in DOMAIN DigitChars : DigitChars[i] = c) - 1
    ELSE IF c \in UpperSet
    THEN 65 + (CHOOSE i \in DOMAIN UpperChars : UpperChars[i] = c) - 1
    ELSE IF c \in LowerSet
    THEN 97 + (CHOOSE i \in DOMAIN LowerChars : LowerChars[i] = c) - 1
    ELSE IF c = "." THEN 46
    ELSE IF c = "-" THEN 45
    ELSE IF c = "_" THEN 95
    ELSE 33


(***************************************************************************)
(* Semantic versions (crate semver): Version::parse, VersionReq::parse and *)
(* VersionReq::matches, for versions MAJOR.MINOR.PATCH without pre-release *)
(* or build metadata and for ranges made of one comparator.                *)
(***************************************************************************)
IsDigits(s) == Len(s) > 0 /\ \A i \in DOMAIN s : s[i] \in DigitSet

DigitVal(c) == (CHOOSE i \in DOMAIN DigitChars : DigitChars[i] = c) - 1

RECURSIVE NumVal(_)
NumVal(s) ==
    IF Len(s) = 0 THEN 0
    ELSE 10 * NumVal(SubSeq(s, 1, Len(s) - 1)) + DigitVal(s[Len(s)])

\* a numeric identifier: digits, no leading zero
IsNumericId(s) == IsDigits(s) /\ (Len(s) > 1 => s[1] # "0")

\* Version::parse(text): Some(<<major, minor, patch>>), or None on an error
VersionParse(text) ==
    LET parts == SplitOn(text, ".")
    IN  IF Len(parts) = 3 /\ \A i \in 1..3 : IsNumericId(parts[i])
        THEN Some(<< NumVal(parts[1]), NumVal(parts[2]), NumVal(parts[3]) >>)
        ELSE None

\* Ord for Version: by major, then minor, then patch
VersionLess(a, b) ==
    \/ a[1] < b[1]
    \/ a[1] = b[1] /\ a[2] < b[2]
    \/ a[1] = b[1] /\ a[2] = b[2] /\ a[3] < b[3]

\* the comparator operators, a longer one before its prefix
ReqOps == << <<">","=">>, <<"<","=">>, <<"^">>, <<"~">>, <<"=">>, <<">">>, <<"<">> >>

\* VersionReq::parse(text): Some([op, version]), or None on an error; a bare
\* version is a caret requirement
VersionReqParse(text) ==
    IF text = <<"*">> THEN Some([op |-> <<"*">>, version |-> <<0, 0, 0>>])
    ELSE LET hits == { i \in DOMAIN ReqOps : IsSome(StripPrefix(text, ReqOps[i])) }
             k    == CHOOSE i \in hits : \A j \in hits : i <= j
             op   == IF hits = {} THEN <<"^">> ELSE ReqOps[k]
             rest == IF hits = {} THEN text ELSE Unwrap(StripPrefix(text, ReqOps[k]))
         IN  IF IsSome(VersionParse(rest))
             THEN Some([op |-> op, version |-> Unwrap(VersionParse(rest))])
             ELSE None

\* VersionReq::matches(version)
VersionReqMatches(req, v) ==
    LET r == req.version
    IN  CASE req.op = <<"*">>      -> TRUE
          [] req.op = <<"=">>      -> v = r
          [] req.op = <<">">>      -> VersionLess(r, v)
          [] req.op = <<">","=">>  -> ~VersionLess(v, r)
          [] req.op = <<"<">>      -> VersionLess(v, r)
          [] req.op = <<"<","=">>  -> ~VersionLess(r, v)
          [] req.op = <<"~">>      -> ~VersionLess(v, r) /\ v[1] = r[1] /\ v[2] = r[2]
          [] req.op = <<"^">>      ->
                /\ ~VersionLess(v, r)
                /\ IF r[1] > 0 THEN v[1] = r[1]
                   ELSE IF r[2] > 0 THEN v[1] = 0 /\ v[2] = r[2]
                   ELSE v = r

(***************************************************************************)
(* Build-time constants                                                    *)
(***************************************************************************)
PLUGIN_API_VERSION == <<"1",".","2",".","0">>

REQUIRED_PLUGIN_API_RANGE == <<"^","1",".","2",".","0">>

\* env!("CARGO_PKG_VERSION"): the host application version of the build
CARGO_PKG_VERSION == <<"0",".","1",".","0">>

(***************************************************************************)
(* Identifier grammars and permission vocabulary                           *)
(***************************************************************************)
IdCharSet == AlphanumericSet \cup { ".", "-", "_" }

\* c.is_ascii_alphanumeric() || c == '.' || c == '-' || c == '_'
IsIdChar(c) == c \in IdCharSet

sanitize_plugin_id(plugin_id) ==
    [ i \in DOMAIN plugin_id |->
        IF IsIdChar(plugin_id[i]) THEN plugin_id[i] ELSE "_" ]

validate_plugin_id(plugin_id) ==
    Len(plugin_id) > 0 /\ \A i \in DOMAIN plugin_id : IsIdChar(plugin_id[i])

is_optional_permission(permission) ==
    permission \in {"fs:pick-read", "fs:pick-write", "network:https",
                    "ui:mount", "editor:annotations"}

is_core_permission(permission) ==
    permission \in {"document:read", "document:write", "editor:commands",
                    "export:register"}

validate_local_contribution_id(id) ==
    /\ Len(id) > 0
    /\ \A i \in DOMAIN id : id[i] # ":"
    /\ \A i \in DOMAIN id : IsIdChar(id[i])

is_supported_transform_hook(hook) ==
    hook \in { <<"p","o","s","t","-","o","p","e","n">>,
               <<"p","r","e","-","s","a","v","e">>,
               <<"p","r","e","-","e","x","p","o","r","t">> }

(***************************************************************************)
(* Manifest validator                                                      *)
(***************************************************************************)
ActivationPrefixes ==
    << <<"o","n","C","o","m","m","a","n","d",":">>,
       <<"o","n","E","x","p","o","r","t","e","r",":">>,
       <<"o","n","I","m","p","o","r","t","e","r",":">>,
       <<"o","n","U","I","C","o","n","t","r","o","l",":">>,
       <<"o","n","U","I","P","a","n","e","l",":">>,
       <<"o","n","S","t","a","t","u","s","B","a","d","g","e",":">>,
       <<"o","n","I","n","l","i","n","e","A","n","n","o","t","a","t","i","o","n","s",":">> >>

OnStartup == <<"o","n","S","t","a","r","t","u","p">>

OnTransformPrefix == <<"o","n","T","r","a","n","s","f","o","r","m",":">>

is_valid_activation_event(event) ==
    IF event = OnStartup THEN TRUE
    ELSE LET hits == { i \in DOMAIN ActivationPrefixes :
                          IsSome(StripPrefix(event, ActivationPrefixes[i])) }
         IN  IF hits # {}
             THEN LET k == CHOOSE i \in hits : \A j \in hits : i <= j
                  IN  validate_local_contribution_id(
                          Unwrap(StripPrefix(event, ActivationPrefixes[k])))
             ELSE IF IsSome(StripPrefix(event, OnTransformPrefix))
             THEN is_supported_transform_hook(
                      Unwrap(StripPrefix(event, OnTransformPrefix)))
             ELSE FALSE

\* Path::is_absolute (Unix): the path starts at the root
PathIsAbsolute(path) == Len(path) > 0 /\ path[1] = "/"

\* the first index of seq whose element fails Good, or 0
FirstBad(seq, Good(_)) ==
    IF \A i \in DOMAIN seq : Good(seq[i]) THEN 0
    ELSE CHOOSE i \in DOMAIN seq :
             ~Good(seq[i]) /\ \A j \in 1..(i - 1) : Good(seq[j])

\* the contribution lists in the order validate_manifest walks them
ContributionKinds ==
    << "commands", "exporters", "importers", "statusBadges",
       "inlineAnnotationProviders", "uiControls", "uiPanels" >>

ContributionIdError ==
    [ commands                  |-> "Invalid command contribution id",
      exporters                 |-> "Invalid exporter contribution id",
      importers                 |-> "Invalid importer contribution id",
      statusBadges              |-> "Invalid status badge contribution id",
      inlineAnnotationProviders |-> "Invalid inline annotation provider contribution id",
      uiControls                |-> "Invalid UI control contribution id",
      uiPanels                  |-> "Invalid UI panel contribution id" ]

\* the id loops over the seven id-only contribution lists (lines 486-529)
CheckContributionIds(contributes) ==
    LET bad == { k \in DOMAIN ContributionKinds :
                    FirstBad(contributes[ContributionKinds[k]],
                             LAMBDA c : validate_local_contribution_id(c.id)) # 0 }
    IN  IF bad = {} THEN "Ok"
        ELSE ContributionIdError[
                 ContributionKinds[CHOOSE k \in bad : \A j \in bad : k <= j]]

\* the transforms loop split in two: the ids of all transforms, then their
\* hooks
CheckTransformsIdsFirst(transforms) ==
    IF FirstBad(transforms, LAMBDA t : validate_local_contribution_id(t.id)) # 0
    THEN "Invalid transform contribution id"
    ELSE IF FirstBad(transforms, LAMBDA t : is_supported_transform_hook(t.hook)) # 0
    THEN "Invalid transform hook"
    ELSE "Ok"

\* the transforms loop (lines 531-542): per transform, its id, then its hook
CheckTransforms(transforms) ==
    LET k == FirstBad(transforms,
                 LAMBDA t : /\ validate_local_contribution_id(t.id)
                            /\ is_supported_transform_hook(t.hook))
    IN  IF k = 0 THEN "Ok"
        ELSE IF ~validate_local_contribution_id(transforms[k].id)
        THEN "Invalid transform contribution id"
        ELSE "Invalid transform hook"

\* the kind of contribution each activation prefix refers to
ActivationKinds ==
    << "commands", "exporters", "importers", "uiControls", "uiPanels",
       "statusBadges", "inlineAnnotationProviders" >>

ActivationMissingError ==
    [ commands                  |-> "references missing command contribution",
      exporters                 |-> "references missing exporter contribution",
      importers                 |-> "references missing importer contribution",
      uiControls                |-> "references missing UI control contribution",
      uiPanels                  |-> "references missing UI panel contribution",
      statusBadges              |-> "references missing status badge contribution",
      inlineAnnotationProviders |-> "references missing inline annotation contribution" ]

\* the back-reference loop looking for the id in the contributions of every
\* kind
CheckActivationReferenceInAnyKind(event, contributes) ==
    IF event = OnStartup THEN "Ok"
    ELSE LET hits == { i \in DOMAIN ActivationPrefixes :
                          IsSome(StripPrefix(event, ActivationPrefixes[i])) }
         IN  IF hits # {}
             THEN LET k        == CHOOSE i \in hits : \A j \in hits : i <= j
                      local_id == Unwrap(StripPrefix(event, ActivationPrefixes[k]))
                  IN  IF \E j \in DOMAIN ActivationKinds :
                             \E i \in DOMAIN contributes[ActivationKinds[j]] :
                                 contributes[ActivationKinds[j]][i].id = local_id
                      THEN "Ok"
                      ELSE ActivationMissingError[ActivationKinds[k]]
             ELSE IF IsSome(StripPrefix(event, OnTransformPrefix))
             THEN LET hook == Unwrap(StripPrefix(event, OnTransformPrefix))
                  IN  IF \E i \in DOMAIN contributes.transforms :
                             contributes.transforms[i].hook = hook
                      THEN "Ok"
                      ELSE "references missing transform hook contribution"
             ELSE "Ok"

\* one pass of the back-reference loop (lines 544-638) for one event
CheckActivationReference(event, contributes) ==
    IF event = OnStartup THEN "Ok"
    ELSE LET hits == { i \in DOMAIN ActivationPrefixes :
                          IsSome(StripPrefix(event, ActivationPrefixes[i])) }
         IN  IF hits # {}
             THEN LET k        == CHOOSE i \in hits : \A j \in hits : i <= j
                      local_id == Unwrap(StripPrefix(event, ActivationPrefixes[k]))
                      items    == contributes[ActivationKinds[k]]
                  IN  IF \E i \in DOMAIN items : items[i].id = local_id
                      THEN "Ok"
                      ELSE ActivationMissingError[ActivationKinds[k]]
             ELSE IF IsSome(StripPrefix(event, OnTransformPrefix))
             THEN LET hook == Unwrap(StripPrefix(event, OnTransformPrefix))
                  IN  IF \E i \in DOMAIN contributes.transforms :
                             contributes.transforms[i].hook = hook
                      THEN "Ok"
                      ELSE "references missing transform hook contribution"
             ELSE "Ok"

CheckActivationReferences(manifest) ==
    LET k == FirstBad(manifest.activationEvents,
                 LAMBDA e : CheckActivationReference(e, manifest.contributes) = "Ok")
    IN  IF k = 0 THEN "Ok"
        ELSE CheckActivationReference(manifest.activationEvents[k],
                                      manifest.contributes)

\* the comparison of line 457 done on the parsed requirements
IsRequiredPluginApiRangeParsed(plugin_api) ==
    VersionReqParse(plugin_api) = VersionReqParse(REQUIRED_PLUGIN_API_RANGE)

\* manifest.engine.plugin_api != REQUIRED_PLUGIN_API_RANGE (line 457) is a
\* comparison of strings
IsRequiredPluginApiRange(plugin_api) == plugin_api = REQUIRED_PLUGIN_API_RANGE

\* validate_manifest: "Ok", or the error of the first check that fails
validate_manifest(manifest) ==
    IF manifest.schemaVersion # 1
    THEN "Unsupported manifest schemaVersion"
    ELSE IF ~validate_plugin_id(manifest.id)
    THEN "Invalid plugin id"
    ELSE IF TrimIsEmpty(manifest.name)
    THEN "Plugin name is required"
    ELSE IF ~IsSome(VersionParse(manifest.version))
    THEN "Plugin version must be valid semver"
    ELSE IF TrimIsEmpty(manifest.entry)
    THEN "Plugin entry path is required"
    ELSE IF StrContains(manifest.entry, <<".", ".">>) \/ PathIsAbsolute(manifest.entry)
    THEN "Plugin entry path must be a relative path within the archive"
    ELSE IF ~IsSome(VersionParse(CARGO_PKG_VERSION))
    THEN "Failed to parse app version"
    ELSE IF ~IsSome(VersionReqParse(manifest.engine.grainery))
    THEN "Invalid engine.grainery version requirement"
    ELSE IF ~VersionReqMatches(Unwrap(VersionReqParse(manifest.engine.grainery)),
                               Unwrap(VersionParse(CARGO_PKG_VERSION)))
    THEN "Plugin engine mismatch"
    ELSE IF ~IsSome(VersionParse(PLUGIN_API_VERSION))
    THEN "Failed to parse plugin API version"
    ELSE IF ~IsSome(VersionReqParse(manifest.engine.pluginApi))
    THEN "Invalid engine.pluginApi version requirement"
    ELSE IF ~IsSome(VersionReqParse(REQUIRED_PLUGIN_API_RANGE))
    THEN "Failed to parse required plugin API range"
    ELSE IF ~VersionReqMatches(Unwrap(VersionReqParse(manifest.engine.pluginApi)),
                               Unwrap(VersionParse(PLUGIN_API_VERSION)))
    THEN "Plugin API mismatch"
    ELSE IF ~VersionReqMatches(Unwrap(VersionReqParse(REQUIRED_PLUGIN_API_RANGE)),
                               Unwrap(VersionParse(PLUGIN_API_VERSION)))
    THEN "Host plugin API range misconfigured"
    ELSE IF ~IsRequiredPluginApiRange(manifest.engine.pluginApi)
    THEN "Plugin engine.pluginApi must be exactly the required range"
    ELSE IF FirstBad(manifest.permissions, is_core_permission) # 0
    THEN "Unknown core permission"
    ELSE IF FirstBad(manifest.optionalPermissions, is_optional_permission) # 0
    THEN "Unknown optional permission"
    ELSE IF Len(manifest.activationEvents) = 0
    THEN "activationEvents must include at least one event"
    ELSE IF FirstBad(manifest.activationEvents, is_valid_activation_event) # 0
    THEN "Invalid activation event"
    ELSE IF CheckContributionIds(manifest.contributes) # "Ok"
    THEN CheckContributionIds(manifest.contributes)
    ELSE IF CheckTransforms(manifest.contributes.transforms) # "Ok"
    THEN CheckTransforms(manifest.contributes.transforms)
    ELSE CheckActivationReferences(manifest)

(***************************************************************************)
(* Plugin archives.  An archive stands for the bytes of a zip file: whether*)
(* ZipArchive::new parses it, the manifest entry it holds (if any), its    *)
(* entries in archive order, and the SHA-256 digest of its bytes.          *)
(***************************************************************************)
IdP == <<"p">>

IdQ == <<"q">>

V100 == <<"1",".","0",".","0">>

V110 == <<"1",".","1",".","0">>

MainJs == <<"m","a","i","n",".","j","s">>

HostApi == <<"a","p","i",".","e","x","a","m","p","l","e",".","c","o","m">>

HostApiMixedCase == <<"A","P","I",".","E","x","a","m","p","l","e",".","c","o","m">>

EmptyContributes ==
    [ commands |-> << >>, exporters |-> << >>, importers |-> << >>,
      statusBadges |-> << >>, inlineAnnotationProviders |-> << >>,
      uiControls |-> << >>, uiPanels |-> << >>, transforms |-> << >> ]

\* the manifest of scenario 1 of the specification, for a given id and version
BaseManifest(id, version) ==
    [ schemaVersion       |-> 1,
      id                  |-> id,
      name                |-> id,
      version             |-> version,
      entry               |-> MainJs,
      engine              |-> [ grainery |-> <<"*">>,
                                pluginApi |-> REQUIRED_PLUGIN_API_RANGE ],
      permissions         |-> << "document:read" >>,
      optionalPermissions |-> << >>,
      networkAllowlist    |-> << >>,
      activationEvents    |-> << OnStartup >>,
      contributes         |-> EmptyContributes ]

ManifestP1 ==
    [ BaseManifest(IdP, V100) EXCEPT
        !.optionalPermissions = << "network:https" >>,
        !.networkAllowlist    = << HostApiMixedCase >> ]

\* the upgrade of p: still asks for network:https, but allows no host
ManifestP2 ==
    [ BaseManifest(IdP, V110) EXCEPT
        !.optionalPermissions = << "network:https" >> ]

\* q declares no optional permission and allows a host
ManifestQ1 ==
    [ BaseManifest(IdQ, V100) EXCEPT !.networkAllowlist = << HostApi >> ]

\* the upgrade of q: it lists network:https twice among its optional
\* permissions
ManifestQ2 ==
    [ BaseManifest(IdQ, V110) EXCEPT
        !.optionalPermissions = << "network:https", "ui:mount", "network:https" >>,
        !.networkAllowlist    = << HostApi >> ]

\* scenario 6: an activation event that refers to no contribution
ManifestDangling ==
    [ BaseManifest(IdP, V110) EXCEPT
        !.activationEvents = << <<"o","n","C","o","m","m","a","n","d",":","f","o","o">> >> ]

FileEntry(name, content) == [ name |-> name, content |-> content, is_dir |-> FALSE ]

Archive(manifest, entries, digest) ==
    [ zipOk |-> TRUE, manifest |-> Some(manifest), entries |-> entries,
      digest |-> digest ]

ArchP1 == Archive(ManifestP1, << FileEntry(MainJs, "X") >>, <<"a","a","0","1">>)

ArchP2 == Archive(ManifestP2, << FileEntry(MainJs, "Y") >>, <<"b","b","0","2">>)

ArchQ1 == Archive(ManifestQ1, << FileEntry(MainJs, "Z") >>, <<"c","c","0","3">>)

ArchQ2 == Archive(ManifestQ2, << FileEntry(MainJs, "Z") >>, <<"a","b","0","7">>)

ArchDangling == Archive(ManifestDangling, << FileEntry(MainJs, "X") >>, <<"d","d","0","4">>)

\* a valid manifest, but an entry that climbs out of the destination
ArchSlip ==
    Archive(ManifestP2,
            << FileEntry(<<"l","i","b",".","j","s">>, "L"), FileEntry(<<".",".","/","e","v","i","l",".","j","s">>, "E"),
               FileEntry(MainJs, "Y") >>,
            <<"e","e","0","5">>)

\* bytes that are no zip archive
ArchNotZip ==
    [ zipOk |-> FALSE, manifest |-> None, entries |-> << >>, digest |-> <<"f","f","0","6">> ]

\* valid manifests with the ids "." and "..", which validate_plugin_id
\* accepts
IdDot == <<".">>

IdDotDot == <<".",".">>

ArchDot == Archive(BaseManifest(IdDot, V100), << FileEntry(MainJs, "D") >>, <<"d","1">>)

ArchDotDot == Archive(BaseManifest(IdDotDot, V100), << FileEntry(MainJs, "D") >>, <<"d","2">>)

ArchivePool == { ArchP1, ArchP2, ArchQ1, ArchDangling, ArchSlip, ArchNotZip }

\* validate_manifest of every manifest of the pool, worked out once
PoolVerdicts ==
    [ manifest \in { Unwrap(a.manifest) : a \in { z \in ArchivePool : IsSome(z.manifest) } }
        |-> validate_manifest(manifest) ]

\* the call validate_manifest(&manifest)
ManifestVerdict(manifest) ==
    IF manifest \in DOMAIN PoolVerdicts
    THEN PoolVerdicts[manifest]
    ELSE validate_manifest(manifest)

\* compute_sha256_hex: the lower-case hex digest of the bytes
compute_sha256_hex(zip_bytes) == zip_bytes.digest

PluginIds == { IdP, IdQ }

\* the directory names under installed/
DirNames == { sanitize_plugin_id(id) : id \in PluginIds }

(***************************************************************************)
(* State                                                                   *)
(***************************************************************************)
VARIABLES
    storeFile,  \* plugins-state.json: missing, unparseable, or a store
    tree,       \* installed/: per directory name, the version tree in it
    auditLog,   \* plugin-audit.log: the entries appended so far
    clock,      \* the wall clock read by now_iso()
    hc,         \* the plugin_host_call handler in flight
    reg,        \* the plugin_install_from_registry handler in flight
    ret,        \* the last value a handler returned to its caller
    workers     \* the handlers that run in parallel on worker tasks

vars == << storeFile, tree, auditLog, clock, hc, reg, ret, workers >>

EmptyStore == [ installedPlugins |-> << >>, lockRecords |-> << >> ]

\* PluginStore::default() on disk is no file at all
MissingFile == [ kind |-> "missing", store |-> EmptyStore ]

\* a file whose content does not parse as a PluginStore
CorruptFile == [ kind |-> "corrupt", store |-> EmptyStore ]

JsonFile(store) == [ kind |-> "json", store |-> store ]

\* the I/O faults a handler can meet
NoFault == "none"

LoadFault == "load"

SaveDenied == "save_denied"

SaveTorn == "save_torn"

\* JSON values of the optional fields: null, or the value
JsonNull == [ null |-> TRUE ]

JsonValue(value) == [ null |-> FALSE, value |-> value ]

\* Serialize for Option<String>: None is written as null
SerializeOption(option) ==
    IF IsSome(option) THEN JsonValue(Unwrap(option)) ELSE JsonNull

\* Deserialize for Option<String> reading null as a value
DeserializeOptionKeepingNull(json) == Some(json)

\* Deserialize for Option<String>: null is read as None
DeserializeOption(json) ==
    IF json.null THEN None ELSE Some(json.value)

\* Serialize for PluginPermissionGrant
SerializeGrants(grants) ==
    [ i \in DOMAIN grants |->
        [ grants[i] EXCEPT !.grantedAt = SerializeOption(@) ] ]

DeserializeGrants(array) ==
    [ i \in DOMAIN array |->
        [ array[i] EXCEPT !.grantedAt = DeserializeOption(@) ] ]

\* Serialize for InstalledPlugin: the object has no entrySource member when
\* the field is None (skip_serializing_if = "Option::is_none")
SerializePlugin(plugin) ==
    LET members == IF IsSome(plugin.entrySource)
                   THEN DOMAIN plugin
                   ELSE DOMAIN plugin \ { "entrySource" }
    IN  [ k \in members |->
            IF k = "entrySource" THEN Unwrap(plugin.entrySource)
            ELSE IF k = "grantedPermissions"
            THEN SerializeGrants(plugin.grantedPermissions)
            ELSE plugin[k] ]

\* Deserialize for InstalledPlugin: an Option field that has no member is
\* None
DeserializePlugin(object) ==
    [ k \in DOMAIN object \cup { "entrySource" } |->
        IF k = "entrySource"
        THEN IF "entrySource" \in DOMAIN object THEN Some(object.entrySource)
             ELSE None
        ELSE IF k = "grantedPermissions"
        THEN DeserializeGrants(object.grantedPermissions)
        ELSE object[k] ]

\* serde_json::to_string_pretty(store): the document written
to_string_pretty(store) ==
    [ installedPlugins |->
          [ i \in DOMAIN store.installedPlugins |->
              SerializePlugin(store.installedPlugins[i]) ],
      lockRecords |->
          [ i \in DOMAIN store.lockRecords |->
              [ store.lockRecords[i] EXCEPT
                  !.grantedPermissions = SerializeGrants(@) ] ] ]

\* serde_json::from_str::<PluginStore>(content) of a document that parses
from_str(document) ==
    [ installedPlugins |->
          [ i \in DOMAIN document.installedPlugins |->
              DeserializePlugin(document.installedPlugins[i]) ],
      lockRecords |->
          [ i \in DOMAIN document.lockRecords |->
              [ document.lockRecords[i] EXCEPT
                  !.grantedPermissions = DeserializeGrants(@) ] ] ]

\* the file that holds the payload of save_store; store is what from_str
\* reads from it
WrittenFile(store) == JsonFile(from_str(to_string_pretty(store)))

\* load_store: Ok(store) or Err
load_store(file, fault) ==
    IF file.kind = "missing"
    THEN [ ok |-> TRUE, store |-> EmptyStore, err |-> "" ]
    ELSE IF fault = LoadFault
    THEN [ ok |-> FALSE, store |-> EmptyStore,
           err |-> "Failed to read plugin store file" ]
    ELSE IF file.kind = "corrupt"
    THEN [ ok |-> FALSE, store |-> EmptyStore,
           err |-> "Failed to parse plugin store JSON" ]
    ELSE [ ok |-> TRUE, store |-> file.store, err |-> "" ]

\* save_store: fs::write creates or truncates the file, then writes the
\* payload; a failure leaves the old file (it could not be opened) or a
\* truncated one
save_store(file, store, fault) ==
    IF fault = SaveDenied
    THEN [ ok |-> FALSE, file |-> file, err |-> "Failed to save plugin store file" ]
    ELSE IF fault = SaveTorn
    THEN [ ok |-> FALSE, file |-> CorruptFile,
           err |-> "Failed to save plugin store file" ]
    ELSE [ ok |-> TRUE, file |-> WrittenFile(store), err |-> "" ]

\* now_iso()
now_iso == clock

\* Vec::retain
Retain(seq, Keep(_)) == SelectSeq(seq, Keep)

\* Iterator::find: the index of the first element that satisfies Test, or 0
FindIndex(seq, Test(_)) ==
    IF \A i \in DOMAIN seq : ~Test(seq[i]) THEN 0
    ELSE CHOOSE i \in DOMAIN seq : Test(seq[i]) /\ \A j \in 1..(i - 1) : ~Test(seq[j])

\* normalize_grants that grants a permission when any entry of the request
\* grants it, where the code takes the first entry for the permission
normalize_grants_any_granted(manifest, grants) ==
    [ i \in DOMAIN manifest.optionalPermissions |->
        LET optional == manifest.optionalPermissions[i]
            found    == FindIndex(grants, LAMBDA item :
                                      item.permission = optional /\ item.granted)
        IN  IF found # 0
            THEN [ permission |-> optional,
                   granted    |-> grants[found].granted,
                   grantedAt  |-> grants[found].grantedAt ]
            ELSE [ permission |-> optional, granted |-> FALSE, grantedAt |-> None ] ]

normalize_grants(manifest, grants) ==
    [ i \in DOMAIN manifest.optionalPermissions |->
        LET optional == manifest.optionalPermissions[i]
            found    == FindIndex(grants, LAMBDA item : item.permission = optional)
        IN  IF found # 0
            THEN [ permission |-> optional,
                   granted    |-> grants[found].granted,
                   grantedAt  |-> grants[found].grantedAt ]
            ELSE [ permission |-> optional, granted |-> FALSE, grantedAt |-> None ] ]

\* has_permission taking a grant entry for granted whatever its flag says
has_permission_by_entry(plugin, permission) ==
    \/ \E i \in DOMAIN plugin.manifest.permissions :
           plugin.manifest.permissions[i] = permission
    \/ \E i \in DOMAIN plugin.grantedPermissions :
           plugin.grantedPermissions[i].permission = permission

has_permission(plugin, permission) ==
    \/ \E i \in DOMAIN plugin.manifest.permissions :
           plugin.manifest.permissions[i] = permission
    \/ \E i \in DOMAIN plugin.grantedPermissions :
           /\ plugin.grantedPermissions[i].permission = permission
           /\ plugin.grantedPermissions[i].granted

(***************************************************************************)
(* The install tree.  tree[d] is the set of version directories that       *)
(* installed/d holds, empty when installed/d does not exist; a version     *)
(* directory is its version and the files and directories below it, each   *)
(* named by its path components.                                           *)
(***************************************************************************)
\* the components of a path, as Path::components yields them
PathParts(path) == SplitOn(path, "/")

\* zip: ZipFile::enclosed_name: None for a NUL, a root or a path that climbs
\* above its start
RECURSIVE EnclosedDepth(_, _, _)
EnclosedDepth(parts, i, depth) ==
    IF i > Len(parts) THEN depth
    ELSE IF parts[i] = <<".", ".">>
    THEN IF depth = 0 THEN -1 ELSE EnclosedDepth(parts, i + 1, depth - 1)
    ELSE IF parts[i] = << >> \/ parts[i] = <<".">>
    THEN EnclosedDepth(parts, i + 1, depth)
    ELSE EnclosedDepth(parts, i + 1, depth + 1)

enclosed_name(name) ==
    IF PathIsAbsolute(name) \/ EnclosedDepth(PathParts(name), 1, 0) < 0
    THEN None
    ELSE Some(name)

\* the place below the version directory that a relative path names
RECURSIVE ResolveParts(_, _, _)
ResolveParts(parts, i, acc) ==
    IF i > Len(parts) THEN acc
    ELSE IF parts[i] = <<".", ".">>
    THEN ResolveParts(parts, i + 1,
                      IF Len(acc) = 0 THEN acc ELSE SubSeq(acc, 1, Len(acc) - 1))
    ELSE IF parts[i] = << >> \/ parts[i] = <<".">>
    THEN ResolveParts(parts, i + 1, acc)
    ELSE ResolveParts(parts, i + 1, Append(acc, parts[i]))

ResolvePath(path) == ResolveParts(PathParts(path), 1, << >>)

EmptyVersionDir(version) ==
    [ version |-> version, files |-> {}, dirs |-> {} ]

\* fs::File::create + io::copy: the file at place now holds content
WriteFile(vdir, place, content) ==
    [ vdir EXCEPT !.files = { f \in vdir.files : f.place # place }
                            \cup { [ place |-> place, content |-> content ] } ]

\* extract_zip_to_directory from entry i on: the version directory it
\* leaves, and whether every entry was extracted
RECURSIVE ExtractFrom(_, _, _)
ExtractFrom(entries, i, vdir) ==
    IF i > Len(entries) THEN [ ok |-> TRUE, vdir |-> vdir ]
    ELSE IF ~IsSome(enclosed_name(entries[i].name))
    THEN [ ok |-> FALSE, vdir |-> vdir ]
    ELSE LET place == ResolvePath(Unwrap(enclosed_name(entries[i].name)))
         IN  IF entries[i].is_dir
             THEN ExtractFrom(entries, i + 1,
                              [ vdir EXCEPT !.dirs = @ \cup { place } ])
             ELSE ExtractFrom(entries, i + 1,
                              WriteFile(vdir, place, entries[i].content))

\* destination is the version directory as fs::create_dir_all left it
extract_zip_to_directory(archive, destination) ==
    ExtractFrom(archive.entries, 1, destination)

\* the version directories of installed/<dir> with that of the version
HasVersion(t, dir, version) == \E v \in t[dir] : v.version = version

VersionDir(t, dir, version) == CHOOSE v \in t[dir] : v.version = version

\* fs::create_dir_all(&version_dir): the directory is there, with what it
\* held if it was there before
create_dir_all(t, dir, version) ==
    IF HasVersion(t, dir, version) THEN t
    ELSE [ t EXCEPT ![dir] = @ \cup { EmptyVersionDir(version) } ]

\* the absolute path of a file below installed/<dir>/<version>/
EntryPath(dir, version, entry) ==
    [ dir |-> dir, version |-> version, place |-> ResolvePath(entry) ]

\* Path::exists for an entry path
PathExists(t, path) ==
    /\ HasVersion(t, path.dir, path.version)
    /\ \/ \E f \in VersionDir(t, path.dir, path.version).files : f.place = path.place
       \/ path.place \in VersionDir(t, path.dir, path.version).dirs
       \/ path.place = << >>

\* fs::read_to_string(path).ok()
ReadToString(t, path) ==
    IF /\ HasVersion(t, path.dir, path.version)
       /\ \E f \in VersionDir(t, path.dir, path.version).files : f.place = path.place
    THEN Some((CHOOSE f \in VersionDir(t, path.dir, path.version).files :
                   f.place = path.place).content)
    ELSE None

\* remove_plugin_installation that leaves the directory as it is
remove_plugin_installation_skipped(t, plugin_id) == t

\* the directory that install_base.join(sanitize_plugin_id(plugin_id))
\* names: the directory of the plugin below installed/, installed/ itself
\* for the id "." and the plugin root above it for the id ".."
RemovalTarget(plugin_id) ==
    IF sanitize_plugin_id(plugin_id) = <<".">> THEN "installed"
    ELSE IF sanitize_plugin_id(plugin_id) = <<".",".">> THEN "root"
    ELSE "plugin"

\* the Result of remove_plugin_installation: fs::remove_dir_all empties the
\* directory and then removes it by the name it was given, which fails for
\* a name that ends in "." or ".."
RemovalResult(plugin_id) ==
    IF RemovalTarget(plugin_id) = "plugin" THEN "Ok"
    ELSE "Failed to remove plugin directory"

\* the store file after remove_plugin_installation: it lies in the plugin
\* root
StoreAfterRemoval(file, plugin_id) ==
    IF RemovalTarget(plugin_id) = "root" THEN MissingFile ELSE file

\* the audit log after a handler that got as far as
\* remove_plugin_installation and failed there: it lies in the plugin root
AuditAfterRemoval(log, plugin_id, result) ==
    IF result = "Failed to remove plugin directory" /\ RemovalTarget(plugin_id) = "root"
    THEN << >>
    ELSE log

\* remove_plugin_installation: installed/<sanitized id> is gone, with every
\* version directory in it
remove_plugin_installation(t, plugin_id) ==
    IF RemovalTarget(plugin_id) = "plugin"
    THEN [ t EXCEPT ![sanitize_plugin_id(plugin_id)] = {} ]
    ELSE [ d \in DOMAIN t |-> {} ]

(***************************************************************************)
(* The core install routine                                                *)
(***************************************************************************)
\* what a handler hands back: its effect on disk and the value it returns
Outcome(t, file, result, value) ==
    [ tree |-> t, file |-> file, result |-> result, value |-> value ]

\* an install that carries the enabled flag and the grants of the record it
\* replaces over to the new one
NewInstalledPluginKeepingSettings(manifest, install_source, trust, entry_path, entry_source, now) ==
    LET plugins == storeFile.store.installedPlugins
        k       == FindIndex(plugins, LAMBDA p : p.id = manifest.id)
    IN  [ id                 |-> manifest.id,
          name               |-> manifest.name,
          version            |-> manifest.version,
          enabled            |-> IF k = 0 THEN TRUE ELSE plugins[k].enabled,
          trust              |-> trust,
          installSource      |-> install_source,
          installedAt        |-> now,
          updatedAt          |-> now,
          entryPath          |-> entry_path,
          entrySource        |-> Some(entry_source),
          crashCount         |-> 0,
          networkAllowlist   |-> manifest.networkAllowlist,
          grantedPermissions |->
              normalize_grants(manifest,
                               IF k = 0 THEN << >> ELSE plugins[k].grantedPermissions),
          manifest           |-> manifest ]

NewInstalledPlugin(manifest, install_source, trust, entry_path, entry_source, now) ==
    [ id                 |-> manifest.id,
      name               |-> manifest.name,
      version            |-> manifest.version,
      enabled            |-> TRUE,
      trust              |-> trust,
      installSource      |-> install_source,
      installedAt        |-> now,
      updatedAt          |-> now,
      entryPath          |-> entry_path,
      entrySource        |-> Some(entry_source),
      crashCount         |-> 0,
      networkAllowlist   |-> manifest.networkAllowlist,
      grantedPermissions |-> normalize_grants(manifest, << >>),
      manifest           |-> manifest ]

\* NewLockRecord carrying the sha256 of the lock record it replaces over to
\* the new one
NewLockRecordKeepingDigest(installed_plugin, zip_bytes, trust, signature_verified, now) ==
    LET locks == storeFile.store.lockRecords
        k     == FindIndex(locks, LAMBDA r : r.pluginId = installed_plugin.manifest.id)
    IN  [ pluginId           |-> installed_plugin.manifest.id,
          version            |-> installed_plugin.manifest.version,
          sha256             |-> IF k = 0 THEN compute_sha256_hex(zip_bytes)
                                 ELSE locks[k].sha256,
          signatureVerified  |-> signature_verified,
          trust              |-> trust,
          enabled            |-> TRUE,
          grantedPermissions |-> installed_plugin.grantedPermissions,
          updatedAt          |-> now ]

\* NewLockRecord with an empty grant list
NewLockRecordWithoutGrants(installed_plugin, zip_bytes, trust, signature_verified, now) ==
    [ pluginId           |-> installed_plugin.manifest.id,
      version            |-> installed_plugin.manifest.version,
      sha256             |-> compute_sha256_hex(zip_bytes),
      signatureVerified  |-> signature_verified,
      trust              |-> trust,
      enabled            |-> TRUE,
      grantedPermissions |-> << >>,
      updatedAt          |-> now ]

\* lines 857-866: the PluginLockRecord of an install
NewLockRecord(installed_plugin, zip_bytes, trust, signature_verified, now) ==
    [ pluginId           |-> installed_plugin.manifest.id,
      version            |-> installed_plugin.manifest.version,
      sha256             |-> compute_sha256_hex(zip_bytes),
      signatureVerified  |-> signature_verified,
      trust              |-> trust,
      enabled            |-> TRUE,
      grantedPermissions |-> installed_plugin.grantedPermissions,
      updatedAt          |-> now ]

\* InstallIntoStore without the two retain() calls: the records of the id
\* that are already in the store stay
InstallIntoStoreKeepingOld(t, file, zip_bytes, manifest, entry_path, entry_source, install_source, trust, signature_verified, fault) ==
    LET loaded == load_store(file, fault)
        plugin == NewInstalledPlugin(manifest, install_source, trust,
                                     entry_path, entry_source, now_iso)
        lock   == NewLockRecord(plugin, zip_bytes, trust, signature_verified, now_iso)
        store  == [ installedPlugins |-> Append(loaded.store.installedPlugins, plugin),
                    lockRecords |-> Append(loaded.store.lockRecords, lock) ]
        saved  == save_store(file, store, fault)
    IN  IF ~loaded.ok THEN Outcome(t, file, loaded.err, None)
        ELSE IF ~saved.ok THEN Outcome(t, saved.file, saved.err, None)
        ELSE Outcome(t, saved.file, "Ok", Some(plugin))

\* lines 828-872: load the store, replace the records of the id, save
InstallIntoStore(t, file, zip_bytes, manifest, entry_path, entry_source, install_source, trust, signature_verified, fault) ==
    LET loaded == load_store(file, fault)
        plugin == NewInstalledPlugin(manifest, install_source, trust,
                                     entry_path, entry_source, now_iso)
        lock   == NewLockRecord(plugin, zip_bytes, trust, signature_verified, now_iso)
        store  == [ installedPlugins |->
                        Append(Retain(loaded.store.installedPlugins,
                                      LAMBDA p : p.id # manifest.id), plugin),
                    lockRecords |->
                        Append(Retain(loaded.store.lockRecords,
                                      LAMBDA r : r.pluginId # manifest.id), lock) ]
        saved  == save_store(file, store, fault)
    IN  IF ~loaded.ok THEN Outcome(t, file, loaded.err, None)
        ELSE IF ~saved.ok THEN Outcome(t, saved.file, saved.err, None)
        ELSE Outcome(t, saved.file, "Ok", Some(plugin))

\* lines 804-826: wipe the plugin directory, extract, find the entry file
InstallExtract(t, file, zip_bytes, manifest, install_source, trust, signature_verified, fault) ==
    LET dir        == sanitize_plugin_id(manifest.id)
        wiped      == remove_plugin_installation(t, manifest.id)
        created    == create_dir_all(wiped, dir, manifest.version)
        extraction == extract_zip_to_directory(
                          zip_bytes, VersionDir(created, dir, manifest.version))
        extracted  == [ created EXCEPT ![dir] =
                          { v \in @ : v.version # manifest.version }
                              \cup { extraction.vdir } ]
        entry_path == EntryPath(dir, manifest.version, manifest.entry)
    IN  IF RemovalResult(manifest.id) # "Ok"
        THEN Outcome(wiped, StoreAfterRemoval(file, manifest.id),
                     RemovalResult(manifest.id), None)
        ELSE IF ~extraction.ok
        THEN Outcome(extracted, file, "Archive entry contains invalid path", None)
        ELSE IF ~PathExists(extracted, entry_path)
        THEN Outcome(extracted, file,
                     "Plugin entry file does not exist after extraction", None)
        ELSE IF ~IsSome(ReadToString(extracted, entry_path))
        THEN Outcome(extracted, file,
                     "Failed to read extracted plugin entry file", None)
        ELSE InstallIntoStore(extracted, file, zip_bytes, manifest, entry_path,
                              Unwrap(ReadToString(extracted, entry_path)),
                              install_source, trust, signature_verified, fault)

\* install_plugin_from_zip_bytes removing the plugin directory before it
\* validates the manifest
install_plugin_from_zip_bytes_wiping_first(t, file, zip_bytes, install_source, trust, signature_verified, fault) ==
    IF ~zip_bytes.zipOk
    THEN Outcome(t, file, "Failed to parse plugin archive", None)
    ELSE IF ~IsSome(zip_bytes.manifest)
    THEN Outcome(t, file, "Plugin archive missing manifest", None)
    ELSE IF ManifestVerdict(Unwrap(zip_bytes.manifest)) # "Ok"
    THEN Outcome(remove_plugin_installation(t, Unwrap(zip_bytes.manifest).id), file,
                 ManifestVerdict(Unwrap(zip_bytes.manifest)), None)
    ELSE InstallExtract(t, file, zip_bytes, Unwrap(zip_bytes.manifest),
                        install_source, trust, signature_verified, fault)

\* install_plugin_from_zip_bytes
install_plugin_from_zip_bytes(t, file, zip_bytes, install_source, trust, signature_verified, fault) ==
    IF ~zip_bytes.zipOk
    THEN Outcome(t, file, "Failed to parse plugin archive", None)
    ELSE IF ~IsSome(zip_bytes.manifest)
    THEN Outcome(t, file, "Plugin archive missing manifest", None)
    ELSE IF ManifestVerdict(Unwrap(zip_bytes.manifest)) # "Ok"
    THEN Outcome(t, file, ManifestVerdict(Unwrap(zip_bytes.manifest)), None)
    ELSE InstallExtract(t, file, zip_bytes, Unwrap(zip_bytes.manifest),
                        install_source, trust, signature_verified, fault)

(***************************************************************************)
(* Synchronous command handlers.  Each runs to completion in one step and  *)
(* leaves the value it returned in ret.                                    *)
(***************************************************************************)
Returned(op, plugin_id, result, value) ==
    [ op |-> op, pluginId |-> plugin_id, result |-> result, value |-> value ]

NothingReturned == Returned("none", << >>, "Ok", None)

\* the frontend has taken the reply of the last handler that returned
ReadyForCall == ret = NothingReturned

\* the reply of a handler reaches the frontend that invoked it
TakeReply ==
    /\ ret # NothingReturned
    /\ ret' = NothingReturned
    /\ UNCHANGED << storeFile, tree, auditLog, clock, hc, reg, workers >>

\* hydrate_entry_source without the branch for a disabled plugin: the record
\* keeps the entry_source it was stored with
hydrate_entry_source_of_enabled(plugin, t) ==
    IF ~plugin.enabled
    THEN plugin
    ELSE [ plugin EXCEPT !.entrySource = ReadToString(t, plugin.entryPath) ]

\* hydrate_entry_source
hydrate_entry_source(plugin, t) ==
    IF ~plugin.enabled
    THEN [ plugin EXCEPT !.entrySource = None ]
    ELSE [ plugin EXCEPT !.entrySource = ReadToString(t, plugin.entryPath) ]

ArchiveId(zip_bytes) ==
    IF IsSome(zip_bytes.manifest) THEN Unwrap(zip_bytes.manifest).id ELSE << >>

\* plugin_install_from_file marking what it installs as verified
plugin_install_from_file_as_verified(zip_bytes, fault) ==
    install_plugin_from_zip_bytes(tree, storeFile, zip_bytes,
                                  "sideload", "verified", FALSE, fault)

\* plugin_install_from_file: the path names a readable file holding zip_bytes
plugin_install_from_file(zip_bytes, fault) ==
    install_plugin_from_zip_bytes(tree, storeFile, zip_bytes,
                                  "sideload", "unverified", FALSE, fault)

InstallFromFile(archives, faults) ==
    /\ ReadyForCall
    /\ \E zip_bytes \in archives, fault \in faults :
        \E out \in { plugin_install_from_file(zip_bytes, fault) } :
            /\ tree' = out.tree
            /\ storeFile' = out.file
            /\ ret' = Returned("install_from_file", ArchiveId(zip_bytes),
                               out.result, out.value)
            /\ auditLog' = AuditAfterRemoval(auditLog, ArchiveId(zip_bytes), out.result)
            /\ UNCHANGED << clock, hc, reg, workers >>

\* plugin_uninstall without the retain() on lock_records
plugin_uninstall_keeping_lock(t, file, plugin_id, fault) ==
    LET loaded == load_store(file, fault)
        store  == [ installedPlugins |->
                        Retain(loaded.store.installedPlugins,
                               LAMBDA p : p.id # plugin_id),
                    lockRecords |-> loaded.store.lockRecords ]
        removed == remove_plugin_installation(t, plugin_id)
        saved   == save_store(file, store, fault)
    IN  IF ~validate_plugin_id(plugin_id)
        THEN Outcome(t, file, "Invalid plugin id", None)
        ELSE IF ~loaded.ok THEN Outcome(t, file, loaded.err, None)
        ELSE IF Len(loaded.store.installedPlugins) = Len(store.installedPlugins)
        THEN Outcome(t, file, "Plugin is not installed", None)
        ELSE IF ~saved.ok THEN Outcome(removed, saved.file, saved.err, None)
        ELSE Outcome(removed, saved.file, "Ok", None)

plugin_uninstall(t, file, plugin_id, fault) ==
    LET loaded == load_store(file, fault)
        store  == [ installedPlugins |->
                        Retain(loaded.store.installedPlugins,
                               LAMBDA p : p.id # plugin_id),
                    lockRecords |->
                        Retain(loaded.store.lockRecords,
                               LAMBDA r : r.pluginId # plugin_id) ]
        removed == remove_plugin_installation(t, plugin_id)
        saved   == save_store(file, store, fault)
    IN  IF ~validate_plugin_id(plugin_id)
        THEN Outcome(t, file, "Invalid plugin id", None)
        ELSE IF ~loaded.ok THEN Outcome(t, file, loaded.err, None)
        ELSE IF Len(loaded.store.installedPlugins) = Len(store.installedPlugins)
        THEN Outcome(t, file, "Plugin is not installed", None)
        ELSE IF RemovalResult(plugin_id) # "Ok"
        THEN Outcome(removed, StoreAfterRemoval(file, plugin_id),
                     RemovalResult(plugin_id), None)
        ELSE IF ~saved.ok THEN Outcome(removed, saved.file, saved.err, None)
        ELSE Outcome(removed, saved.file, "Ok", None)

Uninstall(ids, faults) ==
    /\ ReadyForCall
    /\ \E plugin_id \in ids, fault \in faults :
        \E out \in { plugin_uninstall(tree, storeFile, plugin_id, fault) } :
            /\ tree' = out.tree
            /\ storeFile' = out.file
            /\ ret' = Returned("uninstall", plugin_id, out.result, out.value)
            /\ auditLog' = AuditAfterRemoval(auditLog, plugin_id, out.result)
            /\ UNCHANGED << clock, hc, reg, workers >>

\* the lock records with the record of plugin_id, if any, changed by Change
UpdateLock(lockRecords, plugin_id, Change(_)) ==
    LET k == FindIndex(lockRecords, LAMBDA r : r.pluginId = plugin_id)
    IN  IF k = 0 THEN lockRecords
        ELSE [ lockRecords EXCEPT ![k] = Change(lockRecords[k]) ]

\* plugin_enable_disable that stamps installed_at as well as updated_at
plugin_enable_disable_as_new(t, file, plugin_id, enabled, fault) ==
    LET loaded == load_store(file, fault)
        k      == FindIndex(loaded.store.installedPlugins,
                            LAMBDA p : p.id = plugin_id)
        plugin == [ loaded.store.installedPlugins[k] EXCEPT
                      !.enabled = enabled, !.updatedAt = now_iso,
                      !.installedAt = now_iso ]
        store  == [ installedPlugins |->
                        [ loaded.store.installedPlugins EXCEPT ![k] = plugin ],
                    lockRecords |->
                        UpdateLock(loaded.store.lockRecords, plugin_id,
                                   LAMBDA r : [ r EXCEPT
                                       !.enabled = enabled,
                                       !.updatedAt = plugin.updatedAt ]) ]
        saved  == save_store(file, store, fault)
    IN  IF ~loaded.ok THEN Outcome(t, file, loaded.err, None)
        ELSE IF k = 0 THEN Outcome(t, file, "Plugin is not installed", None)
        ELSE IF ~saved.ok THEN Outcome(t, saved.file, saved.err, None)
        ELSE Outcome(t, saved.file, "Ok", Some(hydrate_entry_source(plugin, t)))

\* plugin_enable_disable
plugin_enable_disable(t, file, plugin_id, enabled, fault) ==
    LET loaded == load_store(file, fault)
        k      == FindIndex(loaded.store.installedPlugins,
                            LAMBDA p : p.id = plugin_id)
        plugin == [ loaded.store.installedPlugins[k] EXCEPT
                      !.enabled = enabled, !.updatedAt = now_iso ]
        store  == [ installedPlugins |->
                        [ loaded.store.installedPlugins EXCEPT ![k] = plugin ],
                    lockRecords |->
                        UpdateLock(loaded.store.lockRecords, plugin_id,
                                   LAMBDA r : [ r EXCEPT
                                       !.enabled = enabled,
                                       !.updatedAt = plugin.updatedAt ]) ]
        saved  == save_store(file, store, fault)
    IN  IF ~loaded.ok THEN Outcome(t, file, loaded.err, None)
        ELSE IF k = 0 THEN Outcome(t, file, "Plugin is not installed", None)
        ELSE IF ~saved.ok THEN Outcome(t, saved.file, saved.err, None)
        ELSE Outcome(t, saved.file, "Ok", Some(hydrate_entry_source(plugin, t)))

EnableDisable(ids, faults) ==
    /\ ReadyForCall
    /\ \E plugin_id \in ids, enabled \in BOOLEAN, fault \in faults :
        \E out \in { plugin_enable_disable(tree, storeFile, plugin_id, enabled, fault) } :
            /\ tree' = out.tree
            /\ storeFile' = out.file
            /\ ret' = Returned("enable_disable", plugin_id, out.result, out.value)
            /\ UNCHANGED << auditLog, clock, hc, reg, workers >>

\* plugin_update_permissions that applies the grants before it looks for a
\* permission the plugin does not declare, and saves what it applied
plugin_update_permissions_then_check(t, file, plugin_id, permissions, fault) ==
    LET loaded == load_store(file, fault)
        k      == FindIndex(loaded.store.installedPlugins,
                            LAMBDA p : p.id = plugin_id)
        old    == loaded.store.installedPlugins[k]
        Declared(grant) ==
            \E i \in DOMAIN old.manifest.optionalPermissions :
                old.manifest.optionalPermissions[i] = grant.permission
        bad    == FirstBad(permissions,
                           LAMBDA g : Declared(g) /\ is_optional_permission(g.permission))
        plugin == [ old EXCEPT
                      !.grantedPermissions = normalize_grants(old.manifest, permissions),
                      !.updatedAt = now_iso ]
        store  == [ installedPlugins |->
                        [ loaded.store.installedPlugins EXCEPT ![k] = plugin ],
                    lockRecords |->
                        UpdateLock(loaded.store.lockRecords, plugin_id,
                                   LAMBDA r : [ r EXCEPT
                                       !.grantedPermissions = plugin.grantedPermissions,
                                       !.updatedAt = plugin.updatedAt ]) ]
        saved  == save_store(file, store, fault)
    IN  IF ~loaded.ok THEN Outcome(t, file, loaded.err, None)
        ELSE IF k = 0 THEN Outcome(t, file, "Plugin is not installed", None)
        ELSE IF ~saved.ok THEN Outcome(t, saved.file, saved.err, None)
        ELSE IF bad # 0
        THEN Outcome(t, saved.file,
                     IF ~Declared(permissions[bad])
                     THEN "Permission is not declared as optional by plugin"
                     ELSE "Unsupported permission", None)
        ELSE Outcome(t, saved.file, "Ok", Some(hydrate_entry_source(plugin, t)))

plugin_update_permissions(t, file, plugin_id, permissions, fault) ==
    LET loaded == load_store(file, fault)
        k      == FindIndex(loaded.store.installedPlugins,
                            LAMBDA p : p.id = plugin_id)
        old    == loaded.store.installedPlugins[k]
        Declared(grant) ==
            \E i \in DOMAIN old.manifest.optionalPermissions :
                old.manifest.optionalPermissions[i] = grant.permission
        bad    == FirstBad(permissions,
                           LAMBDA g : Declared(g) /\ is_optional_permission(g.permission))
        plugin == [ old EXCEPT
                      !.grantedPermissions = normalize_grants(old.manifest, permissions),
                      !.updatedAt = now_iso ]
        store  == [ installedPlugins |->
                        [ loaded.store.installedPlugins EXCEPT ![k] = plugin ],
                    lockRecords |->
                        UpdateLock(loaded.store.lockRecords, plugin_id,
                                   LAMBDA r : [ r EXCEPT
                                       !.grantedPermissions = plugin.grantedPermissions,
                                       !.updatedAt = plugin.updatedAt ]) ]
        saved  == save_store(file, store, fault)
    IN  IF ~loaded.ok THEN Outcome(t, file, loaded.err, None)
        ELSE IF k = 0 THEN Outcome(t, file, "Plugin is not installed", None)
        ELSE IF bad # 0
        THEN Outcome(t, file,
                     IF ~Declared(permissions[bad])
                     THEN "Permission is not declared as optional by plugin"
                     ELSE "Unsupported permission", None)
        ELSE IF ~saved.ok THEN Outcome(t, saved.file, saved.err, None)
        ELSE Outcome(t, saved.file, "Ok", Some(hydrate_entry_source(plugin, t)))

UpdatePermissions(ids, grantLists, faults) ==
    /\ ReadyForCall
    /\ \E plugin_id \in ids, permissions \in grantLists, fault \in faults :
        \E out \in { plugin_update_permissions(tree, storeFile, plugin_id,
                                             permissions, fault) } :
            /\ tree' = out.tree
            /\ storeFile' = out.file
            /\ ret' = Returned("update_permissions", plugin_id, out.result, out.value)
            /\ UNCHANGED << auditLog, clock, hc, reg, workers >>

\* plugin_list_installed: the installed records, each with its entry source
\* as hydrate_entry_source leaves it
plugin_list_installed(t, file, fault) ==
    LET loaded == load_store(file, fault)
    IN  IF ~loaded.ok THEN Outcome(t, file, loaded.err, None)
        ELSE Outcome(t, file, "Ok",
                     Some([ i \in DOMAIN loaded.store.installedPlugins |->
                              hydrate_entry_source(loaded.store.installedPlugins[i], t) ]))

ListInstalled(faults) ==
    /\ ReadyForCall
    /\ \E fault \in faults :
        \E out \in { plugin_list_installed(tree, storeFile, fault) } :
            ret' = Returned("list_installed", << >>, out.result, out.value)
    /\ UNCHANGED << storeFile, tree, auditLog, clock, hc, reg, workers >>

\* plugin_get_lock_records
plugin_get_lock_records(t, file, fault) ==
    LET loaded == load_store(file, fault)
    IN  IF ~loaded.ok THEN Outcome(t, file, loaded.err, None)
        ELSE Outcome(t, file, "Ok", Some(loaded.store.lockRecords))

GetLockRecords(faults) ==
    /\ ReadyForCall
    /\ \E fault \in faults :
        \E out \in { plugin_get_lock_records(tree, storeFile, fault) } :
            ret' = Returned("get_lock_records", << >>, out.result, out.value)
    /\ UNCHANGED << storeFile, tree, auditLog, clock, hc, reg, workers >>

\* time passes
Tick(limit) ==
    /\ clock < limit
    /\ clock' = clock + 1
    /\ UNCHANGED << storeFile, tree, auditLog, hc, reg, ret, workers >>

(***************************************************************************)
(* Registry client                                                         *)
(***************************************************************************)
\* str::cmp(a, b) = Less
RECURSIVE StrLess(_, _)
StrLess(a, b) ==
    IF Len(b) = 0 THEN FALSE
    ELSE IF Len(a) = 0 THEN TRUE
    ELSE IF CharCode(a[1]) # CharCode(b[1]) THEN CharCode(a[1]) < CharCode(b[1])
    ELSE StrLess(Tail(a), Tail(b))

\* the comparator of the sort in select_registry_entry: a is ordered after b
EntryGreater(a, b) ==
    IF IsSome(VersionParse(a.version)) /\ IsSome(VersionParse(b.version))
    THEN VersionLess(Unwrap(VersionParse(b.version)), Unwrap(VersionParse(a.version)))
    ELSE StrLess(b.version, a.version)

\* slice::sort_by, a stable sort: insert each element after the elements
\* that are not ordered after it
RECURSIVE InsertSorted(_, _)
InsertSorted(sorted, e) ==
    IF Len(sorted) = 0 THEN << e >>
    ELSE IF EntryGreater(sorted[Len(sorted)], e)
    THEN Append(InsertSorted(SubSeq(sorted, 1, Len(sorted) - 1), e),
                sorted[Len(sorted)])
    ELSE Append(sorted, e)

RECURSIVE SortEntries(_, _, _)
SortEntries(entries, i, sorted) ==
    IF i > Len(entries) THEN sorted
    ELSE SortEntries(entries, i + 1, InsertSorted(sorted, entries[i]))

\* select_registry_entry: [ok, entry, err]
select_registry_entry(entries, plugin_id, version) ==
    LET matches == SelectSeq(entries, LAMBDA e : e.id = plugin_id)
        exact   == FindIndex(matches, LAMBDA e : e.version = Unwrap(version))
        sorted  == SortEntries(matches, 1, << >>)
    IN  IF Len(matches) = 0
        THEN [ ok |-> FALSE, entry |-> None, err |-> "Plugin not found in registry index" ]
        ELSE IF IsSome(version)
        THEN IF exact = 0
             THEN [ ok |-> FALSE, entry |-> None,
                    err |-> "Plugin version not found in registry index" ]
             ELSE [ ok |-> TRUE, entry |-> Some(matches[exact]), err |-> "" ]
        ELSE [ ok |-> TRUE, entry |-> Some(sorted[Len(sorted)]), err |-> "" ]

\* trusted_registry_keys: key id -> the public key, as its base64 text decodes
TrustedKeyIds == { "main-2026" }

trusted_registry_keys ==
    [ id \in TrustedKeyIds |-> [ encodingOk |-> TRUE, bytes |-> 32, key |-> id ] ]

\* A signature text stands for what it decodes to: whether it is base64, how
\* many bytes it holds, and the key and message it is a valid Ed25519
\* signature of.
SignatureOf(key, message) ==
    [ encodingOk |-> TRUE, bytes |-> 64, key |-> key, message |-> message ]

verify_registry_signature(signature_key_id, signature, sha256_hex) ==
    IF signature_key_id \notin DOMAIN trusted_registry_keys
    THEN "Unknown signature key id"
    ELSE LET key == trusted_registry_keys[signature_key_id]
         IN  IF ~key.encodingOk THEN "Invalid trusted public key encoding"
             ELSE IF ~signature.encodingOk THEN "Invalid signature encoding"
             ELSE IF key.bytes # 32 THEN "Trusted key must decode to 32 bytes"
             ELSE IF signature.bytes # 64 THEN "Signature must decode to 64 bytes"
             ELSE IF signature.key # key.key \/ signature.message # sha256_hex
             THEN "Signature verification failed"
             ELSE "Ok"

\* CheckSelectedEntry without the call of verify_registry_signature
CheckSelectedEntryUnsigned(selected) ==
    IF selected.manifest.id # selected.id
    THEN "Registry manifest id does not match registry entry id"
    ELSE IF selected.manifest.version # selected.version
    THEN "Registry manifest version does not match registry entry version"
    ELSE ManifestVerdict(selected.manifest)

\* lines 1047-1061: what happens between the index and the download request
CheckSelectedEntry(selected) ==
    IF selected.manifest.id # selected.id
    THEN "Registry manifest id does not match registry entry id"
    ELSE IF selected.manifest.version # selected.version
    THEN "Registry manifest version does not match registry entry version"
    ELSE IF ManifestVerdict(selected.manifest) # "Ok"
    THEN ManifestVerdict(selected.manifest)
    ELSE verify_registry_signature(selected.signatureKeyId, selected.signature,
                                   selected.sha256)

\* fetch_registry_entries, once the response is there: [ok, entries, err]
fetch_registry_entries(response) ==
    CASE response.kind = "network_error" ->
            [ ok |-> FALSE, entries |-> << >>, err |-> "Failed to fetch registry index" ]
      [] response.kind = "http_error" ->
            [ ok |-> FALSE, entries |-> << >>,
              err |-> "Registry request failed with HTTP status" ]
      [] response.kind = "not_json" ->
            [ ok |-> FALSE, entries |-> << >>, err |-> "Failed to parse registry JSON" ]
      [] response.kind = "array" ->
            [ ok |-> TRUE, entries |-> response.entries, err |-> "" ]
      [] response.kind = "envelope" ->
            [ ok |-> TRUE, entries |-> response.entries, err |-> "" ]
      [] OTHER ->
            [ ok |-> FALSE, entries |-> << >>,
              err |-> "Registry JSON must be an array or contain a 'plugins' array" ]

\* index and download hold the response that is on its way to the handler
IdleReg ==
    [ pc |-> "idle", pluginId |-> << >>, version |-> None, selected |-> None,
      index |-> None, download |-> None ]

\* plugin_install_from_registry up to its first suspension: the request for
\* the index is sent, and the registry answers it with one of the responses
RegistryInstallStart(ids, versions, responses) ==
    /\ ReadyForCall
    /\ reg.pc = "idle"
    /\ \E plugin_id \in ids, version \in versions, response \in responses :
           reg' = [ pc |-> "fetching", pluginId |-> plugin_id,
                    version |-> version, selected |-> None,
                    index |-> Some(response), download |-> None ]
    /\ UNCHANGED << storeFile, tree, auditLog, clock, hc, ret, workers >>

\* the index response arrives: select, cross-check, validate, verify, and
\* either fail or send the download request
RegistryIndexOutcome(response) ==
    LET fetched  == fetch_registry_entries(response)
        chosen   == select_registry_entry(fetched.entries, reg.pluginId, reg.version)
        selected == Unwrap(chosen.entry)
    IN  IF ~fetched.ok THEN [ result |-> fetched.err, selected |-> None ]
        ELSE IF ~chosen.ok THEN [ result |-> chosen.err, selected |-> None ]
        ELSE IF CheckSelectedEntry(selected) # "Ok"
        THEN [ result |-> CheckSelectedEntry(selected), selected |-> None ]
        ELSE [ result |-> "Ok", selected |-> chosen.entry ]

\* downloads: what the download URL may answer once it is requested
RegistryIndexResponse(downloads) ==
    /\ ReadyForCall
    /\ reg.pc = "fetching"
    /\ \E out \in { RegistryIndexOutcome(Unwrap(reg.index)) } :
           IF out.result = "Ok"
           THEN /\ \E response \in downloads :
                       reg' = [ reg EXCEPT !.pc = "downloading",
                                           !.selected = out.selected,
                                           !.index = None,
                                           !.download = Some(response) ]
                /\ UNCHANGED ret
           ELSE /\ reg' = IdleReg
                /\ ret' = Returned("install_from_registry", reg.pluginId,
                                   out.result, None)
    /\ UNCHANGED << storeFile, tree, auditLog, clock, hc, workers >>

\* RegistryDownloadOutcome clearing the plugin directory before it looks at
\* the digest
RegistryDownloadOutcomeWipingFirst(t, file, selected, response, fault) ==
    IF response.kind = "network_error"
    THEN Outcome(t, file, "Failed to download plugin archive", None)
    ELSE IF response.kind = "http_error"
    THEN Outcome(t, file, "Plugin download failed with HTTP status", None)
    ELSE IF ~eq_ignore_ascii_case(compute_sha256_hex(response.bytes), selected.sha256)
    THEN Outcome(remove_plugin_installation(t, selected.id), file,
                 "SHA256 mismatch for downloaded plugin archive", None)
    ELSE install_plugin_from_zip_bytes(t, file, response.bytes,
                                       "registry", "verified", TRUE, fault)

\* lines 1070-1092: the download response arrives
\* plugin_install_from_registry holding a store across its requests: the
\* core install works on the store as it was before any handler wrote it,
\* not on the store it finds when the download is in
RegistryDownloadOutcomeOnSnapshot(t, file, selected, response, fault) ==
    IF response.kind = "network_error"
    THEN Outcome(t, file, "Failed to download plugin archive", None)
    ELSE IF response.kind = "http_error"
    THEN Outcome(t, file, "Plugin download failed with HTTP status", None)
    ELSE IF ~eq_ignore_ascii_case(compute_sha256_hex(response.bytes), selected.sha256)
    THEN Outcome(t, file, "SHA256 mismatch for downloaded plugin archive", None)
    ELSE install_plugin_from_zip_bytes(t, MissingFile, response.bytes,
                                       "registry", "verified", TRUE, fault)

RegistryDownloadOutcome(t, file, selected, response, fault) ==
    IF response.kind = "network_error"
    THEN Outcome(t, file, "Failed to download plugin archive", None)
    ELSE IF response.kind = "http_error"
    THEN Outcome(t, file, "Plugin download failed with HTTP status", None)
    ELSE IF ~eq_ignore_ascii_case(compute_sha256_hex(response.bytes), selected.sha256)
    THEN Outcome(t, file, "SHA256 mismatch for downloaded plugin archive", None)
    ELSE install_plugin_from_zip_bytes(t, file, response.bytes,
                                       "registry", "verified", TRUE, fault)

RegistryDownloadResponse(faults) ==
    /\ ReadyForCall
    /\ reg.pc = "downloading"
    /\ \E fault \in faults :
           \E out \in { RegistryDownloadOutcome(tree, storeFile, Unwrap(reg.selected),
                                              Unwrap(reg.download), fault) } :
               /\ tree' = out.tree
               /\ storeFile' = out.file
               /\ ret' = Returned("install_from_registry", reg.pluginId,
                                  out.result, out.value)
               /\ auditLog' = AuditAfterRemoval(
                                  auditLog, ArchiveId(Unwrap(reg.download).bytes),
                                  out.result)
    /\ reg' = IdleReg
    /\ UNCHANGED << clock, hc, workers >>

(***************************************************************************)
(* Host broker                                                             *)
(***************************************************************************)
\* the first index of s holding one of the characters, or 0
FirstOf(s, chars) ==
    IF \A i \in DOMAIN s : s[i] \notin chars THEN 0
    ELSE CHOOSE i \in DOMAIN s : s[i] \in chars /\ \A j \in 1..(i - 1) : s[j] \notin chars

\* the last index of s holding the character, or 0
LastOf(s, c) ==
    IF \A i \in DOMAIN s : s[i] # c THEN 0
    ELSE CHOOSE i \in DOMAIN s : s[i] = c /\ \A j \in (i + 1)..Len(s) : s[j] # c

\* the text after the leading slashes and backslashes
RECURSIVE SkipSlashes(_)
SkipSlashes(s) ==
    IF Len(s) > 0 /\ s[1] \in {"/", "\\"} THEN SkipSlashes(Tail(s)) ELSE s

SpecialSchemes ==
    { <<"h","t","t","p">>, <<"h","t","t","p","s">>, <<"w","s">>, <<"w","s","s">>, <<"f","t","p">> }

UrlError == [ ok |-> FALSE, scheme |-> << >>, host |-> None ]

\* the host of an authority: after the last "@", before the port
AuthorityHost(authority) ==
    LET hostport == SubSeq(authority, LastOf(authority, "@") + 1, Len(authority))
        colon    == LastOf(hostport, ":")
    IN  IF colon = 0 THEN hostport ELSE SubSeq(hostport, 1, colon - 1)

\* reqwest::Url::parse for absolute URLs: the scheme is lower-cased; the host
\* of a special scheme follows any run of slashes, ends at the first of
\* / \ ? #, loses its user info and port and is lower-cased
UrlParse(url) ==
    LET colon  == FirstOf(url, {":"})
        scheme == StrLower(SubSeq(url, 1, colon - 1))
        rest   == SubSeq(url, colon + 1, Len(url))
    IN  IF \/ colon <= 1
           \/ url[1] \notin UpperSet \cup LowerSet
           \/ \E i \in 1..(colon - 1) :
                  ~(is_ascii_alphanumeric(url[i]) \/ url[i] \in {"+", "-", "."})
        THEN UrlError
        ELSE IF scheme \in SpecialSchemes
        THEN LET after     == SkipSlashes(rest)
                 stop      == FirstOf(after, {"/", "\\", "?", "#"})
                 authority == IF stop = 0 THEN after ELSE SubSeq(after, 1, stop - 1)
                 host      == AuthorityHost(authority)
             IN  IF Len(host) = 0 \/ \E i \in DOMAIN host : ~IsIdChar(host[i])
                 THEN UrlError
                 ELSE [ ok |-> TRUE, scheme |-> scheme, host |-> Some(StrLower(host)) ]
        ELSE IF IsSome(StripPrefix(rest, <<"/", "/">>))
        THEN LET after     == Unwrap(StripPrefix(rest, <<"/", "/">>))
                 stop      == FirstOf(after, {"/", "?", "#"})
                 authority == IF stop = 0 THEN after ELSE SubSeq(after, 1, stop - 1)
             IN  [ ok |-> TRUE, scheme |-> scheme,
                   host |-> Some(StrLower(AuthorityHost(authority))) ]
        ELSE [ ok |-> TRUE, scheme |-> scheme, host |-> None ]

Https == <<"h","t","t","p","s">>

enforce_network_allowlist(plugin, url) ==
    LET parsed == UrlParse(url)
    IN  IF ~parsed.ok THEN "Invalid URL"
        ELSE IF parsed.scheme # Https
        THEN "Only https:// URLs are allowed for plugin network calls"
        ELSE IF ~IsSome(parsed.host) THEN "URL is missing a host"
        ELSE IF Len(plugin.networkAllowlist) = 0
        THEN "Plugin has an empty network allowlist"
        ELSE IF ~\E i \in DOMAIN plugin.networkAllowlist :
                    eq_ignore_ascii_case(plugin.networkAllowlist[i], Unwrap(parsed.host))
        THEN "Host is not in plugin allowlist"
        ELSE "Ok"

\* JSON payloads: an object that has a "url" member or not; the member is a
\* string or some other value
PayloadWithout == [ url |-> None ]

PayloadUrl(text) == [ url |-> Some([ isString |-> TRUE, text |-> text ]) ]

PayloadUrlNumber == [ url |-> Some([ isString |-> FALSE, text |-> << >> ]) ]

\* payload.get("url").and_then(Value::as_str)
PayloadUrlStr(payload) ==
    IF IsSome(payload.url) /\ Unwrap(payload.url).isString
    THEN Some(Unwrap(payload.url).text)
    ELSE None

AuditOpenFault == "audit_open"

AuditTornFault == "audit_torn"

AuditLine(plugin_id, operation, payload) ==
    [ torn |-> FALSE, timestamp |-> now_iso, pluginId |-> plugin_id,
      operation |-> operation, payload |-> payload ]

\* what a write that failed part-way leaves: a piece of a line, no newline
TornLine ==
    [ torn |-> TRUE, timestamp |-> 0, pluginId |-> << >>,
      operation |-> "", payload |-> PayloadWithout ]

\* append_audit_log opening the file without the append flag: the line
\* replaces what the file held
append_audit_log_truncating(log, plugin_id, operation, payload, fault) ==
    IF fault = AuditOpenFault
    THEN [ ok |-> FALSE, log |-> log, err |-> "Failed to open plugin audit log" ]
    ELSE IF fault = AuditTornFault
    THEN [ ok |-> FALSE, log |-> << TornLine >>,
           err |-> "Failed to write plugin audit log entry" ]
    ELSE [ ok |-> TRUE, log |-> << AuditLine(plugin_id, operation, payload) >>,
           err |-> "" ]

\* append_audit_log: [ok, log, err]
append_audit_log(log, plugin_id, operation, payload, fault) ==
    IF fault = AuditOpenFault
    THEN [ ok |-> FALSE, log |-> log, err |-> "Failed to open plugin audit log" ]
    ELSE IF fault = AuditTornFault
    THEN [ ok |-> FALSE, log |-> Append(log, TornLine),
           err |-> "Failed to write plugin audit log entry" ]
    ELSE [ ok |-> TRUE, log |-> Append(log, AuditLine(plugin_id, operation, payload)),
           err |-> "" ]

NetworkOperations == { "network:get_json", "network:get_text" }

\* the error of the reserved document operations
DocumentError ==
    "Document operations must be brokered by the frontend host, not plugin_host_call"

\* format!("Unsupported host operation '{}'", operation)
UnsupportedError(operation) == "Unsupported host operation '" \o operation \o "'"

\* the match on the operation with audit:log behind the network permission
HostDispatchGatingAuditLog(plugin, operation, payload) ==
    IF operation \in NetworkOperations \cup { "audit:log" }
           /\ ~has_permission(plugin, "network:https")
    THEN [ result |-> "Permission denied: network:https", url |-> None,
           value |-> None ]
    ELSE IF operation = "audit:log"
    THEN [ result |-> "Ok", url |-> None, value |-> Some([ ok |-> TRUE ]) ]
    ELSE IF operation \in { "document:get", "document:replace" }
    THEN [ result |-> DocumentError, url |-> None, value |-> None ]
    ELSE [ result |-> UnsupportedError(operation), url |-> None, value |-> None ]

\* the match on the operation (lines 1226-1293) up to the request: the
\* error returned, "Ok" with the value returned, or "Send" with the URL to
\* get
HostDispatch(plugin, operation, payload) ==
    IF operation \in NetworkOperations
    THEN IF ~has_permission(plugin, "network:https")
         THEN [ result |-> "Permission denied: network:https", url |-> None,
                value |-> None ]
         ELSE IF ~IsSome(PayloadUrlStr(payload))
         THEN [ result |-> "Payload must include string field 'url'", url |-> None,
                value |-> None ]
         ELSE IF enforce_network_allowlist(plugin, Unwrap(PayloadUrlStr(payload))) # "Ok"
         THEN [ result |-> enforce_network_allowlist(plugin,
                                                     Unwrap(PayloadUrlStr(payload))),
                url |-> None, value |-> None ]
         ELSE [ result |-> "Send", url |-> PayloadUrlStr(payload), value |-> None ]
    ELSE IF operation = "audit:log"
    THEN [ result |-> "Ok", url |-> None, value |-> Some([ ok |-> TRUE ]) ]
    ELSE IF operation \in { "document:get", "document:replace" }
    THEN [ result |-> DocumentError, url |-> None, value |-> None ]
    ELSE [ result |-> UnsupportedError(operation), url |-> None, value |-> None ]

\* plugin_host_call without the check of plugin.enabled
HostCallOutcomeOfDisabled(file, log, plugin_id, operation, payload, fault) ==
    LET loaded   == load_store(file, fault)
        k        == FindIndex(loaded.store.installedPlugins,
                              LAMBDA p : p.id = plugin_id)
        plugin   == loaded.store.installedPlugins[k]
        appended == append_audit_log(log, plugin_id, operation, payload, fault)
        dispatch == HostDispatch(plugin, operation, payload)
    IN  IF ~loaded.ok THEN [ log |-> log, result |-> loaded.err, url |-> None,
               value |-> None ]
        ELSE IF k = 0
        THEN [ log |-> log, result |-> "Plugin is not installed", url |-> None,
               value |-> None ]
        ELSE IF ~appended.ok
        THEN [ log |-> appended.log, result |-> appended.err, url |-> None,
               value |-> None ]
        ELSE [ log |-> appended.log, result |-> dispatch.result, url |-> dispatch.url,
               value |-> dispatch.value ]

\* plugin_host_call appending the line after the checks of the operation,
\* when they let the call through
HostCallOutcomeChecksFirst(file, log, plugin_id, operation, payload, fault) ==
    LET loaded   == load_store(file, fault)
        k        == FindIndex(loaded.store.installedPlugins,
                              LAMBDA p : p.id = plugin_id)
        plugin   == loaded.store.installedPlugins[k]
        appended == append_audit_log(log, plugin_id, operation, payload, fault)
        dispatch == HostDispatch(plugin, operation, payload)
    IN  IF ~loaded.ok THEN [ log |-> log, result |-> loaded.err, url |-> None,
               value |-> None ]
        ELSE IF k = 0
        THEN [ log |-> log, result |-> "Plugin is not installed", url |-> None,
               value |-> None ]
        ELSE IF ~plugin.enabled
        THEN [ log |-> log, result |-> "Plugin is disabled", url |-> None,
               value |-> None ]
        ELSE IF dispatch.result \notin { "Ok", "Send" }
        THEN [ log |-> log, result |-> dispatch.result, url |-> None,
               value |-> None ]
        ELSE IF ~appended.ok
        THEN [ log |-> appended.log, result |-> appended.err, url |-> None,
               value |-> None ]
        ELSE [ log |-> appended.log, result |-> dispatch.result, url |-> dispatch.url,
               value |-> dispatch.value ]

\* plugin_host_call dropping the result of append_audit_log
HostCallOutcomeUnaudited(file, log, plugin_id, operation, payload, fault) ==
    LET loaded   == load_store(file, fault)
        k        == FindIndex(loaded.store.installedPlugins,
                              LAMBDA p : p.id = plugin_id)
        plugin   == loaded.store.installedPlugins[k]
        appended == append_audit_log(log, plugin_id, operation, payload, fault)
        dispatch == HostDispatch(plugin, operation, payload)
    IN  IF ~loaded.ok THEN [ log |-> log, result |-> loaded.err, url |-> None,
               value |-> None ]
        ELSE IF k = 0
        THEN [ log |-> log, result |-> "Plugin is not installed", url |-> None,
               value |-> None ]
        ELSE IF ~plugin.enabled
        THEN [ log |-> log, result |-> "Plugin is disabled", url |-> None,
               value |-> None ]
        ELSE [ log |-> appended.log, result |-> dispatch.result, url |-> dispatch.url,
               value |-> dispatch.value ]

\* plugin_host_call up to its first suspension: [log, result, url, value]
HostCallOutcome(file, log, plugin_id, operation, payload, fault) ==
    LET loaded   == load_store(file, fault)
        k        == FindIndex(loaded.store.installedPlugins,
                              LAMBDA p : p.id = plugin_id)
        plugin   == loaded.store.installedPlugins[k]
        appended == append_audit_log(log, plugin_id, operation, payload, fault)
        dispatch == HostDispatch(plugin, operation, payload)
    IN  IF ~loaded.ok THEN [ log |-> log, result |-> loaded.err, url |-> None,
               value |-> None ]
        ELSE IF k = 0
        THEN [ log |-> log, result |-> "Plugin is not installed", url |-> None,
               value |-> None ]
        ELSE IF ~plugin.enabled
        THEN [ log |-> log, result |-> "Plugin is disabled", url |-> None,
               value |-> None ]
        ELSE IF ~appended.ok
        THEN [ log |-> appended.log, result |-> appended.err, url |-> None,
               value |-> None ]
        ELSE [ log |-> appended.log, result |-> dispatch.result, url |-> dispatch.url,
               value |-> dispatch.value ]

\* allowlist is the networkAllowlist of the record the handler loaded; url
\* and request are those of the request that is under way
IdleHc ==
    [ pc |-> "idle", pluginId |-> << >>, operation |-> "", allowlist |-> << >>,
      url |-> << >>, request |-> UrlError ]

\* Client::new().get(url).send(): the request that leaves the process
RequestFor(url) == UrlParse(url)

\* the record of plugin_id in the store the handler loaded
LoadedPlugin(file, plugin_id, fault) ==
    LET plugins == load_store(file, fault).store.installedPlugins
    IN  plugins[FindIndex(plugins, LAMBDA p : p.id = plugin_id)]

\* calls: the (operation, payload) pairs callers pass; the audit log is kept
\* to at most maxAudit entries
HostCallStart(ids, calls, faults, maxAudit) ==
    /\ ReadyForCall
    /\ hc.pc = "idle"
    /\ \E plugin_id \in ids, call \in calls, fault \in faults :
           \E out \in { HostCallOutcome(storeFile, auditLog, plugin_id,
                                      call.operation, call.payload, fault) } :
               /\ Len(out.log) <= maxAudit
               /\ auditLog' = out.log
               /\ IF out.result = "Send"
                  THEN /\ hc' = [ pc |-> "awaiting", pluginId |-> plugin_id,
                                  operation |-> call.operation,
                                  allowlist |->
                                      LoadedPlugin(storeFile, plugin_id, fault)
                                          .networkAllowlist,
                                  url |-> Unwrap(out.url),
                                  request |-> RequestFor(Unwrap(out.url)) ]
                       /\ UNCHANGED ret
                  ELSE /\ hc' = IdleHc
                       /\ ret' = Returned("host_call", plugin_id, out.result, out.value)
    /\ UNCHANGED << storeFile, tree, clock, reg, workers >>

\* the response to the request: [kind, jsonOk, textOk, location].  A
\* response of kind "redirect" is a 3xx status with a Location header:
\* Client::new() follows it (the default redirect policy) with a request to
\* that location; a chain the policy cuts short ends as a "network_error".
HostResponseResult(operation, response) ==
    IF response.kind = "network_error" THEN "Network request failed"
    ELSE IF response.kind = "http_error" THEN "HTTP request failed with status"
    ELSE IF operation = "network:get_json"
    THEN IF response.jsonOk THEN "Ok" ELSE "Failed to parse JSON response"
    ELSE IF response.textOk THEN "Ok" ELSE "Failed to read text response"

\* the value returned with "Ok": the parsed body, or { "text": body }
HostResponseValue(operation, response) ==
    IF HostResponseResult(operation, response) # "Ok" THEN None
    ELSE IF operation = "network:get_json" THEN Some([ json |-> "body" ])
    ELSE Some([ text |-> "body" ])

HostCallResponse(responses) ==
    /\ ReadyForCall
    /\ hc.pc = "awaiting"
    /\ \E response \in responses :
           IF response.kind = "redirect"
           THEN /\ hc' = [ hc EXCEPT !.url = response.location,
                                     !.request = RequestFor(response.location) ]
                /\ UNCHANGED ret
           ELSE /\ hc' = IdleHc
                /\ ret' = Returned("host_call", hc.pluginId,
                                   HostResponseResult(hc.operation, response),
                                   HostResponseValue(hc.operation, response))
    /\ UNCHANGED << storeFile, tree, auditLog, clock, reg, workers >>

(***************************************************************************)
(* Handlers on worker tasks.  Several handlers may run in parallel; each   *)
(* is a straight-line sequence whose reads and writes of the files are     *)
(* separate system calls, between which another worker may run.            *)
(***************************************************************************)
Workers == { "w1", "w2" }

IdleWorker == [ pc |-> "idle" ]

\* the handler of worker w has returned result to its caller ("Send": it
\* has sent its request and is suspended)
ReturnedOn(call, result) == [ pc |-> "returned", call |-> call, result |-> result ]

\* writeln!(file, "{}", line) on a File: write_fmt hands every piece the
\* formatter produces to write_all, one write to the file each.  The object
\* is written as its opening brace, its members and its closing brace; the
\* newline of writeln! is a piece of its own.
AuditPieces(line) ==
    << [ of |-> line, part |-> "{" ], [ of |-> line, part |-> "members" ],
       [ of |-> line, part |-> "}" ], [ of |-> line, part |-> "newline" ] >>

\* plugin_host_call on worker w up to the first write of append_audit_log:
\* the file is opened for appending and the first piece is written.  At
\* most maxAudit lines are begun.
HostCallOnWorker(w, ids, calls, maxAudit) ==
    /\ workers[w].pc = "idle"
    /\ \E plugin_id \in ids, call \in calls :
           LET this == [ op |-> "host_call", pluginId |-> plugin_id,
                         operation |-> call.operation, payload |-> call.payload ]
               out  == HostCallOutcome(storeFile, << >>, plugin_id,
                                       call.operation, call.payload, NoFault)
               pieces == AuditPieces(AuditLine(plugin_id, call.operation,
                                               call.payload))
           IN  IF out.log = << >>
               THEN /\ workers' = [ workers EXCEPT ![w] = ReturnedOn(this, out.result) ]
                    /\ UNCHANGED auditLog
               ELSE /\ Cardinality({ i \in DOMAIN auditLog :
                                         auditLog[i].part = "{" }) < maxAudit
                    /\ auditLog' = Append(auditLog, Head(pieces))
                    /\ workers' = [ workers EXCEPT ![w] =
                                      [ pc |-> "writing", call |-> this,
                                        pending |-> Tail(pieces),
                                        result |-> out.result ] ]
    /\ UNCHANGED << storeFile, tree, clock, hc, reg, ret >>

\* the next write_all of the writeln! of worker w; O_APPEND puts the piece
\* at the end of the file.  After the last piece the handler goes on to the
\* match on the operation and returns or sends its request.
WriteAll(w) ==
    /\ workers[w].pc = "writing"
    /\ auditLog' = Append(auditLog, Head(workers[w].pending))
    /\ workers' = [ workers EXCEPT ![w] =
                      IF Len(workers[w].pending) = 1
                      THEN ReturnedOn(workers[w].call, workers[w].result)
                      ELSE [ workers[w] EXCEPT !.pending = Tail(@) ] ]
    /\ UNCHANGED << storeFile, tree, clock, hc, reg, ret >>

\* the caller takes the result of the handler of worker w
WorkerEnds(w) ==
    /\ workers[w].pc = "returned"
    /\ workers' = [ workers EXCEPT ![w] = IdleWorker ]
    /\ UNCHANGED << storeFile, tree, auditLog, clock, hc, reg, ret >>

\* a call of a mutating handler: [op, pluginId, zip_bytes, enabled,
\* permissions]
CallOutcome(t, file, call) ==
    IF call.op = "install_from_file"
    THEN install_plugin_from_zip_bytes(t, file, call.zip_bytes,
                                       "sideload", "unverified", FALSE, NoFault)
    ELSE IF call.op = "uninstall"
    THEN plugin_uninstall(t, file, call.pluginId, NoFault)
    ELSE IF call.op = "enable_disable"
    THEN plugin_enable_disable(t, file, call.pluginId, call.enabled, NoFault)
    ELSE plugin_update_permissions(t, file, call.pluginId, call.permissions, NoFault)

\* a mutating handler on worker w up to its load_store: an install has
\* wiped the plugin directory and extracted the archive by then; a handler
\* that fails returns.  The worker holds the store it has read.
WorkerLoads(w, calls) ==
    /\ workers[w].pc = "idle"
    /\ \E call \in calls :
           \E out \in { CallOutcome(tree, storeFile, call) } :
               IF out.result # "Ok"
               THEN /\ tree' = out.tree
                    /\ storeFile' = out.file
                    /\ auditLog' = AuditAfterRemoval(auditLog, call.pluginId, out.result)
                    /\ workers' = [ workers EXCEPT ![w] = ReturnedOn(call, out.result) ]
               ELSE /\ tree' = IF call.op = "install_from_file" THEN out.tree ELSE tree
                    /\ workers' = [ workers EXCEPT ![w] =
                                      [ pc |-> "loaded", call |-> call,
                                        loaded |-> storeFile ] ]
                    /\ UNCHANGED << storeFile, auditLog >>
    /\ UNCHANGED << clock, hc, reg, ret >>

\* the rest of the handler of worker w: it changes the store it has read
\* and save_store writes that store over the file
WorkerSaves(w) ==
    /\ workers[w].pc = "loaded"
    /\ \E out \in { CallOutcome(tree, workers[w].loaded, workers[w].call) } :
           /\ tree' = out.tree
           /\ storeFile' = out.file
           /\ workers' = [ workers EXCEPT ![w] =
                             ReturnedOn(workers[w].call, out.result) ]
    /\ UNCHANGED << auditLog, clock, hc, reg, ret >>

(***************************************************************************)
(* Inputs: what callers pass and what the network answers                  *)
(***************************************************************************)
MaxClock == 1

MaxAudit == 2

StoreFaults == { NoFault, LoadFault, SaveDenied, SaveTorn }

Grant(permission, granted, grantedAt) ==
    [ permission |-> permission, granted |-> granted, grantedAt |-> grantedAt ]

GrantLists ==
    { << >>,
      << Grant("network:https", TRUE, Some("2026-01-01T00:00:00Z")) >>,
      << Grant("network:https", TRUE, Some("2026-01-01T00:00:00Z")),
         Grant("ui:mount", TRUE, None) >> }

RegistryEntry(manifest, sha256, key_id, signature) ==
    [ id |-> manifest.id, version |-> manifest.version, manifest |-> manifest,
      downloadUrl |-> manifest.version, sha256 |-> sha256,
      signatureKeyId |-> key_id, signature |-> signature ]

\* the index writes the digest of ArchP1 in upper case and signs that text
EntryP1 ==
    RegistryEntry(ManifestP1, <<"A","A","0","1">>, "main-2026",
                  SignatureOf("main-2026", <<"A","A","0","1">>))

EntryP2 ==
    RegistryEntry(ManifestP2, <<"b","b","0","2">>, "main-2026",
                  SignatureOf("main-2026", <<"b","b","0","2">>))

\* signed and pinned, but the archive behind it does not extract
EntrySlip ==
    RegistryEntry(ManifestP2, <<"e","e","0","5">>, "main-2026",
                  SignatureOf("main-2026", <<"e","e","0","5">>))

\* scenario 3: a key id that is not in the trusted table
EntryUnknownKey == [ EntryP1 EXCEPT !.signatureKeyId = "bogus" ]

\* a signature of the lower-case digest, where the entry holds the upper-case
EntryBadSignature ==
    [ EntryP1 EXCEPT !.signature = SignatureOf("main-2026", <<"a","a","0","1">>) ]

\* entries that fail an earlier check and would fail the signature check too
EntryIdMismatch ==
    [ EntryP1 EXCEPT !.manifest = [ ManifestP1 EXCEPT !.id = IdQ ],
                     !.signatureKeyId = "bogus" ]

EntryVersionMismatch ==
    [ EntryP1 EXCEPT !.version = V110, !.signatureKeyId = "bogus" ]

EntryDangling == RegistryEntry(ManifestDangling, <<"d","d","0","4">>, "bogus",
                               SignatureOf("main-2026", <<"d","d","0","4">>))

IndexFailure(kind) == [ kind |-> kind, entries |-> << >> ]

IndexArray(entries) == [ kind |-> "array", entries |-> entries ]

IndexEnvelope(entries) == [ kind |-> "envelope", entries |-> entries ]

IndexResponses ==
    { IndexFailure("network_error"), IndexFailure("http_error"),
      IndexFailure("not_json"), IndexFailure("bad_shape"),
      IndexArray(<< EntryP1, EntryP2 >>),
      IndexEnvelope(<< EntrySlip >>),
      IndexArray(<< EntryUnknownKey >>),
      IndexArray(<< EntryBadSignature >>),
      IndexArray(<< EntryIdMismatch >>),
      IndexArray(<< EntryVersionMismatch >>),
      IndexArray(<< EntryDangling >>),
      IndexArray(<< >>) }

RequestedVersions == { None, Some(V100) }

DownloadFailure(kind) == [ kind |-> kind, bytes |-> ArchNotZip ]

DownloadBody(zip_bytes) == [ kind |-> "body", bytes |-> zip_bytes ]

DownloadResponses ==
    { DownloadFailure("network_error"), DownloadFailure("http_error"),
      DownloadBody(ArchP1), DownloadBody(ArchP2), DownloadBody(ArchSlip) }

\* the registry as the store life cycle meets it: down, or serving p
LifeCycleIndexes ==
    { IndexFailure("network_error"), IndexArray(<< EntryP1, EntryP2 >>) }

LifeCycleDownloads ==
    { DownloadFailure("http_error"), DownloadBody(ArchP2) }

(***************************************************************************)
(* The specification of the store life cycle: the synchronous commands and *)
(* the registry install, whose segments interleave with them               *)
(***************************************************************************)
Init ==
    /\ storeFile = MissingFile
    /\ tree = [ d \in DirNames |-> {} ]
    /\ auditLog = << >>
    /\ clock = 0
    /\ hc = IdleHc
    /\ reg = IdleReg
    /\ ret = NothingReturned
    /\ workers = [ w \in Workers |-> IdleWorker ]

Next ==
    \/ Tick(MaxClock)
    \/ TakeReply
    \/ InstallFromFile(ArchivePool, StoreFaults)
    \/ Uninstall(PluginIds, StoreFaults)
    \/ EnableDisable({ IdP }, StoreFaults)
    \/ UpdatePermissions({ IdP }, GrantLists, StoreFaults)
    \/ RegistryInstallStart({ IdP }, { None }, LifeCycleIndexes)
    \/ RegistryIndexResponse(LifeCycleDownloads)
    \/ RegistryDownloadResponse(StoreFaults)

Spec == Init /\ [][Next]_vars

(***************************************************************************)
(* The specification of the registry install: every index and download the *)
(* registry may answer with, over a store that holds p, q, both or neither  *)
(***************************************************************************)
NextRegistry ==
    \/ TakeReply
    \/ InstallFromFile({ ArchP1, ArchQ1 }, { NoFault })
    \/ Uninstall({ IdP }, { NoFault })
    \/ RegistryInstallStart({ IdP }, RequestedVersions, IndexResponses)
    \/ RegistryIndexResponse(DownloadResponses)
    \/ RegistryDownloadResponse(StoreFaults)

SpecRegistry == Init /\ [][NextRegistry]_vars

(***************************************************************************)
(* The specification of the permission grants: update-permissions with     *)
(* every shape of request, against plugins that are installed, toggled and *)
(* removed in between                                                      *)
(***************************************************************************)
GrantedAt == Some("2026-01-01T00:00:00Z")

\* requests: empty, one grant, the same permission twice with two answers,
\* a permission that only q declares, a valid grant followed by a
\* permission nobody declares, two grants in the other order than the
\* manifest lists them, and a refusal followed by a grant of the same
\* permission
GrantRequests ==
    { << >>,
      << Grant("network:https", TRUE, GrantedAt) >>,
      << Grant("network:https", TRUE, GrantedAt), Grant("network:https", FALSE, None) >>,
      << Grant("ui:mount", TRUE, GrantedAt) >>,
      << Grant("network:https", TRUE, GrantedAt), Grant("fs:pick-read", TRUE, GrantedAt) >>,
      << Grant("ui:mount", FALSE, None), Grant("network:https", TRUE, GrantedAt) >>,
      << Grant("network:https", FALSE, None), Grant("network:https", TRUE, GrantedAt) >> }

NextGrants ==
    \/ Tick(MaxClock)
    \/ TakeReply
    \/ InstallFromFile({ ArchP1, ArchQ2 }, { NoFault })
    \/ Uninstall({ IdQ }, { NoFault })
    \/ EnableDisable({ IdQ }, { NoFault })
    \/ UpdatePermissions(PluginIds, GrantRequests, StoreFaults)

SpecGrants == Init /\ [][NextGrants]_vars

(***************************************************************************)
(* The specification of the host broker: host calls against a plugin that  *)
(* is installed, granted, disabled and removed in between                  *)
(***************************************************************************)
HostCall(operation, payload) == [ operation |-> operation, payload |-> payload ]

UrlAllowed == <<"h","t","t","p","s",":","/","/","a","p","i",".","e","x","a","m","p","l","e",".","c","o","m","/","x">>

UrlUpperCase == <<"H","T","T","P","S",":","/","/","A","P","I",".","E","X","A","M","P","L","E",".","C","O","M","/","x">>

UrlWithPort == <<"h","t","t","p","s",":","/","/","a","p","i",".","e","x","a","m","p","l","e",".","c","o","m",":","8","4","4","3","/","x">>

UrlHttp == <<"h","t","t","p",":","/","/","a","p","i",".","e","x","a","m","p","l","e",".","c","o","m","/","x">>

UrlEvil == <<"h","t","t","p","s",":","/","/","e","v","i","l",".","c","o","m","/","x">>

\* a host that ends with the allow-listed host
UrlSuffixHost == <<"h","t","t","p","s",":","/","/","e","v","i","l","a","p","i",".","e","x","a","m","p","l","e",".","c","o","m","/","x">>

\* the allow-listed host as user info of another host
UrlUserInfo == <<"h","t","t","p","s",":","/","/","a","p","i",".","e","x","a","m","p","l","e",".","c","o","m","@","e","v","i","l",".","c","o","m","/","x">>

UrlRelative == <<"/","x">>

HostCalls ==
    { HostCall("network:get_json", PayloadUrl(u)) :
          u \in { UrlAllowed, UrlUpperCase, UrlWithPort, UrlHttp, UrlEvil,
                  UrlSuffixHost, UrlUserInfo, UrlRelative } }
    \cup
    { HostCall("network:get_json", PayloadWithout),
      HostCall("network:get_json", PayloadUrlNumber),
      HostCall("network:get_text", PayloadUrl(UrlAllowed)),
      HostCall("audit:log", PayloadWithout),
      HostCall("audit:log", PayloadUrl(UrlEvil)),
      HostCall("document:get", PayloadWithout),
      HostCall("document:replace", PayloadUrl(UrlAllowed)),
      HostCall("fs:read", PayloadWithout) }

HostFaults == { NoFault, LoadFault, AuditOpenFault, AuditTornFault }

HostResponse(kind, jsonOk, textOk) ==
    [ kind |-> kind, jsonOk |-> jsonOk, textOk |-> textOk, location |-> << >> ]

\* a 302 that sends the client on to location
HostRedirect(location) ==
    [ kind |-> "redirect", jsonOk |-> FALSE, textOk |-> FALSE, location |-> location ]

HostResponses ==
    { HostResponse("network_error", FALSE, FALSE),
      HostResponse("http_error", FALSE, FALSE),
      HostResponse("body", TRUE, TRUE),
      HostResponse("body", FALSE, TRUE),
      HostResponse("body", FALSE, FALSE),
      HostRedirect(UrlEvil),
      HostRedirect(UrlHttp) }

NetGrantLists ==
    { << >>,
      << Grant("network:https", TRUE, Some("2026-01-01T00:00:00Z")) >> }

NextHost ==
    \/ TakeReply
    \/ InstallFromFile({ ArchP1, ArchP2, ArchDotDot }, { NoFault })
    \/ Uninstall({ IdP }, { NoFault })
    \/ EnableDisable({ IdP }, { NoFault })
    \/ UpdatePermissions({ IdP }, NetGrantLists, { NoFault })
    \/ HostCallStart({ IdP }, HostCalls, HostFaults, MaxAudit)
    \/ HostCallResponse(HostResponses)

SpecHost == Init /\ [][NextHost]_vars

(***************************************************************************)
(* The specification of the lock records: p is installed from a file and   *)
(* from the registry, at either version, and toggled in between            *)
(***************************************************************************)
NextLock ==
    \/ TakeReply
    \/ InstallFromFile({ ArchP1, ArchP2, ArchQ1 }, { NoFault })
    \/ EnableDisable({ IdP }, { NoFault })
    \/ UpdatePermissions({ IdP }, NetGrantLists, { NoFault })
    \/ RegistryInstallStart({ IdP }, RequestedVersions,
                            { IndexArray(<< EntryP1, EntryP2 >>) })
    \/ RegistryIndexResponse({ DownloadBody(ArchP1), DownloadBody(ArchP2) })
    \/ RegistryDownloadResponse({ NoFault, SaveDenied })

SpecLock == Init /\ [][NextLock]_vars

(***************************************************************************)
(* The specification of the validator: validate_manifest is called with    *)
(* every manifest of a pool, and the manifests of the pool are installed   *)
(* from archives that hold them                                            *)
(***************************************************************************)
\* what can be wrong with a manifest, named by the rule it breaks; t1 and t2
\* are the first and the second transform; entryDots is an entry with two
\* dots inside the name of a directory
Defects ==
    { "schemaVersion", "id", "name", "version", "entry", "entryDots", "grainery", "pluginApi",
      "permission", "optionalPermission", "event", "commandId", "t1Id", "t2Id",
      "t1Hook", "t2Hook", "reference" }

Contribution(id) == [ id |-> id ]

Transform(id, hook) == [ id |-> id, hook |-> hook ]

\* a manifest with a command, two transforms and an event for each, valid
\* but for the defects
WithDefects(defects) ==
    [ schemaVersion       |-> IF "schemaVersion" \in defects THEN 2 ELSE 1,
      id                  |-> IF "id" \in defects THEN <<"p","/","q">> ELSE IdP,
      name                |-> IF "name" \in defects THEN <<" ">> ELSE IdP,
      version             |-> IF "version" \in defects THEN <<"1",".","0">> ELSE V100,
      entry               |-> IF "entry" \in defects THEN <<"/","m","a","i","n",".","j","s">>
                              ELSE IF "entryDots" \in defects THEN <<"a",".",".","b","/","m","a","i","n",".","j","s">>
                              ELSE MainJs,
      engine              |->
          [ grainery  |-> IF "grainery" \in defects THEN <<"^","9",".","0",".","0">> ELSE <<"*">>,
            pluginApi |-> IF "pluginApi" \in defects THEN <<"*">>
                          ELSE REQUIRED_PLUGIN_API_RANGE ],
      permissions         |->
          IF "permission" \in defects THEN << "document:read", "network:https" >>
          ELSE << "document:read" >>,
      optionalPermissions |->
          IF "optionalPermission" \in defects THEN << "network:https", "document:read" >>
          ELSE << "network:https" >>,
      networkAllowlist    |-> << >>,
      activationEvents    |->
          << OnStartup, <<"o","n","C","o","m","m","a","n","d",":","r","u","n">>, <<"o","n","T","r","a","n","s","f","o","r","m",":","p","r","e","-","s","a","v","e">> >>
              \o (IF "event" \in defects THEN << <<"o","n","C","o","m","m","a","n","d",":","a",":","b">> >> ELSE << >>)
              \o (IF "reference" \in defects THEN << <<"o","n","E","x","p","o","r","t","e","r",":","p","d","f">> >> ELSE << >>),
      contributes         |->
          [ EmptyContributes EXCEPT
              !.commands =
                  << Contribution(IF "commandId" \in defects THEN <<"r",":","n">> ELSE <<"r","u","n">>) >>
                      \o (IF "commandId" \in defects THEN << Contribution(<<"r","u","n">>) >>
                          ELSE << >>),
              !.transforms =
                  << Transform(IF "t1Id" \in defects THEN <<"t"," ","1">> ELSE <<"t","1">>,
                               IF "t1Hook" \in defects THEN <<"o","n","-","s","a","v","e">> ELSE <<"p","r","e","-","s","a","v","e">>),
                     Transform(IF "t2Id" \in defects THEN <<"t",":","2">> ELSE <<"t","2">>,
                               IF "t2Hook" \in defects THEN <<"p","o","s","t","-","s","a","v","e">>
                               ELSE <<"p","r","e","-","s","a","v","e">>) >> ] ]

\* a manifest whose one event has the prefix of one kind of contribution
\* and names the id of its one contribution, which is of another or the
\* same kind
KindManifest(event_kind, kind) ==
    [ BaseManifest(IdP, V100) EXCEPT
        !.activationEvents = << ActivationPrefixes[event_kind] \o <<"x">> >>,
        !.contributes      = [ EmptyContributes EXCEPT
                                 ![ActivationKinds[kind]] = << Contribution(<<"x">>) >> ] ]

\* a manifest whose one event names a transform hook and whose one transform
\* has a hook
HookManifest(event_hook, hook) ==
    [ BaseManifest(IdP, V100) EXCEPT
        !.activationEvents = << OnTransformPrefix \o event_hook >>,
        !.contributes      = [ EmptyContributes EXCEPT
                                 !.transforms = << Transform(<<"x">>, hook) >> ] ]

\* values of engine.pluginApi: the pinned range, other ranges that the host
\* plugin API version satisfies, ranges it does not satisfy, and text that is
\* no range
ApiRanges ==
    { <<"^","1",".","2",".","0">>, <<">","=","1",".","0",".","0">>, <<"*">>, <<"1",".","2",".","0">>, <<"=","1",".","2",".","0">>, <<"~","1",".","2",".","0">>, <<"^","1",".","0",".","0">>,
      <<"<","=","1",".","2",".","0">>, <<">","1",".","1",".","9">>, <<"<","2",".","0",".","0">>,
      <<"^","2",".","0",".","0">>, <<">","1",".","2",".","0">>, <<"<","1",".","2",".","0">>, <<"^","1",".","3",".","0">>, <<"=","1",".","0",".","0">>, <<"~","1",".","1",".","0">>,
      <<">","=","1",".","2",".","1">>, <<"<","=","1",".","1",".","9">>, <<"^","0",".","1",".","2">>,
      <<"l","a","t","e","s","t">>, <<"^","1",".","2",".","x",".","0">> }

\* a valid manifest but for its engine.pluginApi
RangeManifest(range) ==
    [ BaseManifest(IdP, V100) EXCEPT !.engine.pluginApi = range ]

\* values of entry: relative paths without and with a segment "..",
\* relative paths with two dots inside a segment name, absolute paths and
\* blank text
EntryPaths ==
    { <<"m","a","i","n",".","j","s">>, <<"d","i","s","t","/","m","a","i","n",".","j","s">>, <<".","/","m","a","i","n",".","j","s">>, <<".","m","a","i","n",".","j","s">>, <<"d","i","s","t","/",".">>,
      <<"a",".",".","b","/","m","a","i","n",".","j","s">>, <<"d","i","s","t","/","m","a","i","n",".",".","j","s">>, <<".",".",".">>, <<".",".","m","a","i","n",".","j","s">>, <<"d","i","s","t","/","x",".",".">>,
      <<".",".">>, <<".",".","/","m","a","i","n",".","j","s">>, <<"d","i","s","t","/",".",".","/","m","a","i","n",".","j","s">>, <<"d","i","s","t","/",".",".">>,
      <<"/","m","a","i","n",".","j","s">>, <<"/">>, <<"/","d","i","s","t","/",".",".","/","m","a","i","n",".","j","s">>,
      <<" ">>, <<" "," ">>, << >> }

\* a valid manifest but for its entry
EntryManifest(entry) ==
    [ BaseManifest(IdP, V100) EXCEPT !.entry = entry ]

\* the manifests with no defect, one defect and two defects, the manifest
\* without any activation event, the manifests of one event and one
\* contribution, the manifests of one plugin API range and the manifests of
\* one entry
ManifestPool ==
    { WithDefects({ a, b }) : a, b \in Defects }
        \cup { WithDefects({}),
               [ WithDefects({}) EXCEPT !.activationEvents = << >> ] }
        \cup { KindManifest(event_kind, kind) :
                   event_kind, kind \in DOMAIN ActivationPrefixes }
        \cup { HookManifest(event_hook, hook) :
                   event_hook, hook \in { <<"p","o","s","t","-","o","p","e","n">>, <<"p","r","e","-","s","a","v","e">> } }
        \cup { RangeManifest(range) : range \in ApiRanges }
        \cup { EntryManifest(entry) : entry \in EntryPaths }

\* an archive that holds the manifest and its entry file
ArchiveOf(manifest) ==
    Archive(manifest, << FileEntry(MainJs, "X") >>, <<"0","a","0","8">>)

\* a call validate_manifest(&manifest): the manifest and the verdict
Validate(manifests) ==
    /\ ReadyForCall
    /\ \E manifest \in manifests :
           ret' = Returned("validate_manifest", manifest.id,
                           validate_manifest(manifest), Some(manifest))
    /\ UNCHANGED << storeFile, tree, auditLog, clock, hc, reg, workers >>

NextValidate ==
    \/ TakeReply
    \/ Validate(ManifestPool)
    \/ InstallFromFile({ ArchiveOf(manifest) : manifest \in ManifestPool }, { NoFault })

SpecValidate == Init /\ [][NextValidate]_vars

(***************************************************************************)
(* The specification of extraction: archives whose entries have paths that *)
(* leave the destination, that hold ".." without leaving it, or that are   *)
(* absolute, installed over one another                                    *)
(***************************************************************************)
\* an archive of the manifest with three entries, the second with that name
ArchiveWith(manifest, name, content, digest) ==
    Archive(manifest,
            << FileEntry(<<"l","i","b",".","j","s">>, "L"), FileEntry(name, content),
               FileEntry(MainJs, "Y") >>,
            digest)

ExtractArchives ==
    { ArchP1, ArchSlip,
      ArchiveWith(ManifestP2, <<"l","i","b","/",".",".","/","i","n","n","e","r",".","j","s">>, "inner", <<"e","1">>),
      ArchiveWith(ManifestP2, <<"l","i","b","/","x","/",".",".","/",".",".","/",".",".","/","o","u","t",".","j","s">>, "out", <<"e","2">>),
      ArchiveWith(ManifestP2, <<".","/",".",".","/","u","p",".","j","s">>, "up", <<"e","3">>),
      ArchiveWith(ManifestQ1, <<"/","a","b","s",".","j","s">>, "abs", <<"e","4">>),
      ArchiveWith(ManifestQ1, <<"a",".",".","b","/","d","o","t","s",".","j","s">>, "dots", <<"e","5">>),
      ArchiveWith(ManifestQ1, <<"l","i","b","/",".","/",".",".","/",".",".","/","m","a","i","n",".","j","s">>, "climb", <<"e","6">>) }

NextExtract ==
    \/ TakeReply
    \/ InstallFromFile(ExtractArchives, StoreFaults)
    \/ Uninstall(PluginIds, { NoFault })

SpecExtract == Init /\ [][NextExtract]_vars

(***************************************************************************)
(* The specification of plugin ids: archives whose manifests have the ids  *)
(* "." and "..", which validate_plugin_id accepts, installed next to the   *)
(* archives of p and q                                                     *)
(***************************************************************************)
NextIds ==
    \/ TakeReply
    \/ InstallFromFile({ ArchP1, ArchP2, ArchQ1, ArchDot, ArchDotDot }, { NoFault })
    \/ Uninstall(PluginIds \cup { IdDot, IdDotDot }, { NoFault })
    \/ EnableDisable({ IdQ }, { NoFault })

SpecIds == Init /\ [][NextIds]_vars

(***************************************************************************)
(* The specification of the store file: the handlers that read and write   *)
(* it, with the failures of reading and writing and the store file left    *)
(* truncated by a write that failed                                        *)
(***************************************************************************)
NextStore ==
    \/ Tick(MaxClock)
    \/ TakeReply
    \/ InstallFromFile({ ArchP1, ArchQ1 }, StoreFaults)
    \/ Uninstall(PluginIds, StoreFaults)
    \/ EnableDisable({ IdP }, StoreFaults)
    \/ UpdatePermissions({ IdP }, NetGrantLists, StoreFaults)
    \/ ListInstalled({ NoFault })
    \/ GetLockRecords({ NoFault })

SpecStore == Init /\ [][NextStore]_vars

(***************************************************************************)
(* The specification of a crash: the process ends while a handler writes   *)
(* the store file                                                          *)
(***************************************************************************)
\* save_store when the process ends during fs::write: the file as it was
\* (not yet opened), truncated or written in part, or written in full
save_store_interrupted(file, store) == { file, CorruptFile, WrittenFile(store) }

\* what the mutating handlers do with the store and the tree when nothing
\* fails
MutatingCalls(archives, ids, grantLists) ==
    { plugin_install_from_file(zip_bytes, NoFault) : zip_bytes \in archives }
        \cup { plugin_uninstall(tree, storeFile, plugin_id, NoFault) : plugin_id \in ids }
        \cup { plugin_enable_disable(tree, storeFile, plugin_id, enabled, NoFault) :
                   plugin_id \in ids, enabled \in BOOLEAN }
        \cup { plugin_update_permissions(tree, storeFile, plugin_id, permissions, NoFault) :
                   plugin_id \in ids, permissions \in grantLists }

\* the process ends (crash, kill, power loss) while a mutating handler is
\* in save_store: what the handler did before is done, the store file is as
\* the interrupted write left it, nothing is returned and the requests in
\* flight are gone with the process
CrashInSave(archives, ids, grantLists) ==
    /\ ReadyForCall
    /\ \E out \in MutatingCalls(archives, ids, grantLists) :
           /\ out.result = "Ok"
           /\ tree' = out.tree
           /\ storeFile' \in save_store_interrupted(storeFile, out.file.store)
    /\ ret' = Returned("crash", << >>, "Process ended in save_store", None)
    /\ hc' = IdleHc
    /\ reg' = IdleReg
    /\ UNCHANGED << auditLog, clock, workers >>

NextCrash ==
    \/ TakeReply
    \/ InstallFromFile({ ArchP1, ArchP2, ArchQ1 }, { NoFault })
    \/ Uninstall(PluginIds, { NoFault })
    \/ EnableDisable(PluginIds, { NoFault })
    \/ UpdatePermissions({ IdP }, NetGrantLists, { NoFault })
    \/ ListInstalled({ NoFault })
    \/ CrashInSave({ ArchP1, ArchP2, ArchQ1 }, PluginIds, NetGrantLists)

SpecCrash == Init /\ [][NextCrash]_vars

(***************************************************************************)
(* The specification of parallel host calls: two workers append to the     *)
(* audit log; auditLog holds the pieces written, in the order of the file, *)
(* of as many lines as there are workers                                   *)
(***************************************************************************)
AuditCalls ==
    { HostCall("audit:log", PayloadWithout),
      HostCall("network:get_json", PayloadUrl(UrlAllowed)),
      HostCall("fs:read", PayloadWithout) }

NextAudit ==
    \/ TakeReply
    \/ InstallFromFile({ ArchP1 }, { NoFault })
    \/ EnableDisable({ IdP }, { NoFault })
    \/ HostCallOnWorker("w1", { IdP }, AuditCalls, Cardinality(Workers))
    \/ HostCallOnWorker("w2", { IdP }, AuditCalls, Cardinality(Workers))
    \/ WriteAll("w1")
    \/ WriteAll("w2")
    \/ WorkerEnds("w1")
    \/ WorkerEnds("w2")

SpecAudit == Init /\ [][NextAudit]_vars

(***************************************************************************)
(* The specification of parallel mutating handlers: worker w1 runs the     *)
(* handlers of plugin p, worker w2 those of plugin q                       *)
(***************************************************************************)
CallsOn(zip_bytes) ==
    { [ op |-> "install_from_file", pluginId |-> ArchiveId(zip_bytes),
        zip_bytes |-> zip_bytes ],
      [ op |-> "uninstall", pluginId |-> ArchiveId(zip_bytes) ] }
        \cup { [ op |-> "enable_disable", pluginId |-> ArchiveId(zip_bytes),
                 enabled |-> enabled ] : enabled \in BOOLEAN }
        \cup { [ op |-> "update_permissions", pluginId |-> ArchiveId(zip_bytes),
                 permissions |-> permissions ] : permissions \in NetGrantLists }

NextParallel ==
    \/ WorkerLoads("w1", CallsOn(ArchP1))
    \/ WorkerLoads("w2", CallsOn(ArchQ1))
    \/ WorkerSaves("w1")
    \/ WorkerSaves("w2")
    \/ WorkerEnds("w1")
    \/ WorkerEnds("w2")

SpecParallel == Init /\ [][NextParallel]_vars

(***************************************************************************)
(* The specification of the handlers that return hydrated records; the     *)
(* installs of ArchSlip and ArchDot remove entry files of stored records   *)
(***************************************************************************)
NextHydrate ==
    \/ TakeReply
    \/ InstallFromFile({ ArchP1, ArchQ1, ArchSlip, ArchDot }, { NoFault })
    \/ EnableDisable(PluginIds, { NoFault })
    \/ UpdatePermissions({ IdP }, NetGrantLists, { NoFault })
    \/ ListInstalled({ NoFault })

SpecHydrate == Init /\ [][NextHydrate]_vars

(***************************************************************************)
(* The specification of the selection of a registry entry: the index holds *)
(* up to three entries, in any order, with valid and invalid versions      *)
(***************************************************************************)
V190 == <<"1",".","9",".","0">>

V1100 == <<"1",".","1","0",".","0">>

\* not a semver version
V15x == <<"1",".","5",".","x">>

SelectDigest == <<"a","a","0","1">>

SelectEntry(id, version) ==
    RegistryEntry(BaseManifest(id, version), SelectDigest, "main-2026",
                  SignatureOf("main-2026", SelectDigest))

SelectEntries ==
    { SelectEntry(IdP, V100), SelectEntry(IdP, V190), SelectEntry(IdP, V1100),
      SelectEntry(IdP, V15x), SelectEntry(IdQ, V110) }

SelectIndexes ==
    { IndexArray(<< a >>) : a \in SelectEntries }
        \cup { IndexArray(<< a, b >>) : a \in SelectEntries, b \in SelectEntries }
        \cup { IndexArray(<< a, b, c >>) :
                   a \in SelectEntries, b \in SelectEntries, c \in SelectEntries }

NextSelect ==
    \/ TakeReply
    \/ RegistryInstallStart({ IdP }, { None, Some(V190), Some(V110) }, SelectIndexes)
    \/ RegistryIndexResponse({ DownloadFailure("network_error") })
    \/ RegistryDownloadResponse({ NoFault })

SpecSelect == Init /\ [][NextSelect]_vars

(***************************************************************************)
(* The specification of registry installs whose download is not the        *)
(* archive of the selected entry's manifest: the entry pins and signs the  *)
(* digest of an archive with another manifest                              *)
(***************************************************************************)
EntryFor(manifest, zip_bytes) ==
    RegistryEntry(manifest, compute_sha256_hex(zip_bytes), "main-2026",
                  SignatureOf("main-2026", compute_sha256_hex(zip_bytes)))

\* p 1.0.0 in the index; the archive pinned holds the manifest of q 1.0.0
EntryOtherId == EntryFor(ManifestP1, ArchQ1)

\* p 1.0.0 in the index; the archive pinned holds the manifest of p 1.1.0
EntryOtherVersion == EntryFor(ManifestP1, ArchP2)

PinnedIndexes ==
    { IndexArray(<< EntryFor(ManifestP1, ArchP1) >>), IndexArray(<< EntryOtherId >>),
      IndexArray(<< EntryOtherVersion >>), IndexArray(<< EntryP2 >>) }

NextPinned ==
    \/ TakeReply
    \/ InstallFromFile({ ArchQ1, ArchQ2 }, { NoFault })
    \/ EnableDisable({ IdQ }, { NoFault })
    \/ Uninstall({ IdP }, { NoFault })
    \/ RegistryInstallStart({ IdP }, { None }, PinnedIndexes)
    \/ RegistryIndexResponse({ DownloadBody(ArchP1), DownloadBody(ArchP2),
                               DownloadBody(ArchQ1) })
    \/ RegistryDownloadResponse({ NoFault })

SpecPinned == Init /\ [][NextPinned]_vars

(***************************************************************************)
(* The specification of handlers that interleave at their network          *)
(* suspension points: while a registry install or a host call awaits its   *)
(* response, the synchronous handlers, and the segments of the other       *)
(* suspended handler, run                                                  *)
(***************************************************************************)
SuspendCalls ==
    { HostCall("network:get_json", PayloadUrl(UrlAllowed)),
      HostCall("audit:log", PayloadWithout) }

SuspendResponses == { HostResponse("body", TRUE, TRUE), HostRedirect(UrlEvil) }

NextSuspend ==
    \/ TakeReply
    \/ InstallFromFile({ ArchP1, ArchQ1 }, { NoFault, SaveDenied })
    \/ Uninstall({ IdQ }, { NoFault })
    \/ EnableDisable({ IdQ }, { NoFault })
    \/ UpdatePermissions({ IdP }, NetGrantLists, { NoFault })
    \/ RegistryInstallStart({ IdP }, { None }, LifeCycleIndexes)
    \/ RegistryIndexResponse(LifeCycleDownloads)
    \/ RegistryDownloadResponse({ NoFault, SaveDenied })
    \/ HostCallStart({ IdP }, SuspendCalls, { NoFault }, 1)
    \/ HostCallResponse(SuspendResponses)

SpecSuspend == Init /\ [][NextSuspend]_vars

(***************************************************************************)
(* Properties                                                              *)
(***************************************************************************)
\* the store a handler would load from the file as it is
StoredPlugins == storeFile.store.installedPlugins

StoredLocks == storeFile.store.lockRecords

InstalledCount(id) ==
    Cardinality({ i \in DOMAIN StoredPlugins : StoredPlugins[i].id = id })

LockCount(id) ==
    Cardinality({ i \in DOMAIN StoredLocks : StoredLocks[i].pluginId = id })

IsInstalled(id) == InstalledCount(id) > 0

\* the first installed record, and the first lock record, of an id
InstalledOf(id) == StoredPlugins[FindIndex(StoredPlugins, LAMBDA p : p.id = id)]

LockOf(id) == StoredLocks[FindIndex(StoredLocks, LAMBDA r : r.pluginId = id)]

\* a handler has just returned the record of a plugin it installed
InstallReturned ==
    /\ ret.op \in { "install_from_file", "install_from_registry" }
    /\ ret.result = "Ok"

\* the step is one whole run, or the last segment, of the named handler
HandlerReturns(op) == ret = NothingReturned /\ ret'.op = op

\* C1: the store holds at most one installed record and at most one lock
\* record per plugin id, and every installed record has a lock record of its
\* id; right after a successful install of an id the store holds exactly one
\* installed record and exactly one lock record of that id.
C1_OnePerId ==
    /\ \A id \in PluginIds :
          /\ InstalledCount(id) <= 1
          /\ LockCount(id) <= 1
          /\ IsInstalled(id) => LockCount(id) = 1
    /\ InstallReturned =>
          /\ InstalledCount(Unwrap(ret.value).id) = 1
          /\ LockCount(Unwrap(ret.value).id) = 1

\* q was installed first and stands first in the store; p is installed from
\* the registry at a later time
C1_Witness ==
    /\ InstallReturned
    /\ ret.op = "install_from_registry"
    /\ Unwrap(ret.value).id = IdP
    /\ Unwrap(ret.value).installedAt = MaxClock
    /\ IsInstalled(IdQ)
    /\ InstalledOf(IdQ).installedAt = 0
    /\ StoredPlugins[1].id = IdQ

\* trust, installSource and the lock's signatureVerified and trust of an id
TrustOf(id) ==
    IF ~IsInstalled(id) \/ LockCount(id) = 0 THEN None
    ELSE Some(<< InstalledOf(id).trust, InstalledOf(id).installSource,
                 LockOf(id).signatureVerified, LockOf(id).trust >>)

TrustAgrees ==
    \A id \in PluginIds : IsInstalled(id) =>
        /\ LockCount(id) > 0
        /\ InstalledOf(id).trust = "verified"
               <=> InstalledOf(id).installSource = "registry"
        /\ InstalledOf(id).trust = "verified"
               <=> (LockOf(id).signatureVerified /\ LockOf(id).trust = "verified")

SideloadIsUnverified ==
    (ret.op = "install_from_file" /\ ret.result = "Ok") =>
        TrustOf(Unwrap(ret.value).id)
            = Some(<< "unverified", "sideload", FALSE, "unverified" >>)

\* enable-disable and update-permissions leave the trust values of every
\* record they leave in the store as they were
TogglesKeepTrust ==
    (HandlerReturns("enable_disable") \/ HandlerReturns("update_permissions")) =>
        \A id \in PluginIds :
            (IsSome(TrustOf(id)) /\ IsSome(TrustOf(id)')) => TrustOf(id)' = TrustOf(id)

\* C2: an installed record has trust "verified" exactly when its installSource
\* is "registry" and exactly when its lock record has signatureVerified and
\* trust "verified"; a record made by install-from-file is unverified,
\* sideload, with signatureVerified false in its lock record; enable-disable
\* and update-permissions never change trust, installSource or
\* signatureVerified.
C2_TrustMatchesSource ==
    /\ [](TrustAgrees /\ SideloadIsUnverified)
    /\ [][TogglesKeepTrust]_vars

\* a verified p next to a sideloaded q, p having been disabled since
C2_Witness ==
    /\ ret.op = "enable_disable"
    /\ ret.result = "Ok"
    /\ ret.pluginId = IdP
    /\ ~InstalledOf(IdP).enabled
    /\ TrustOf(IdP) = Some(<< "verified", "registry", TRUE, "verified" >>)
    /\ TrustOf(IdQ) = Some(<< "unverified", "sideload", FALSE, "unverified" >>)

SignatureErrors ==
    { "Unknown signature key id", "Invalid trusted public key encoding",
      "Invalid signature encoding", "Trusted key must decode to 32 bytes",
      "Signature must decode to 64 bytes", "Signature verification failed" }

\* the entry carries a signature of its sha256 text by a trusted key
SignatureIsValid(entry) ==
    /\ entry.signatureKeyId \in TrustedKeyIds
    /\ entry.signature.encodingOk
    /\ entry.signature.bytes = 64
    /\ entry.signature.key = entry.signatureKeyId
    /\ entry.signature.message = entry.sha256

\* the registry handler resumes with the index, or with the download
IndexStep == reg.pc = "fetching" /\ reg'.pc # "fetching"

DownloadStep == reg.pc = "downloading" /\ reg'.pc # "downloading"

RegistryFails(result) ==
    /\ reg'.pc = "idle"
    /\ ret' = Returned("install_from_registry", reg.pluginId, result, None)

\* the digest of the downloaded bytes is the one the entry pins
DigestMatches ==
    /\ Unwrap(reg.download).kind = "body"
    /\ eq_ignore_ascii_case(compute_sha256_hex(Unwrap(reg.download).bytes),
                            Unwrap(reg.selected).sha256)

\* the handler moves from the index request to the download request to its
\* return, and in no other way
RegistrySegmentsInOrder ==
    reg'.pc # reg.pc =>
        << reg.pc, reg'.pc >> \in { << "idle", "fetching" >>,
                                    << "fetching", "idle" >>,
                                    << "fetching", "downloading" >>,
                                    << "downloading", "idle" >> }

\* with the index in hand the first check that fails decides the error, in
\* the order id, version, manifest, signature; the download is requested
\* when none fails
EntryChecksInOrder ==
    IndexStep =>
        LET fetched == fetch_registry_entries(Unwrap(reg.index))
            chosen  == select_registry_entry(fetched.entries, reg.pluginId, reg.version)
            entry   == Unwrap(chosen.entry)
        IN  (fetched.ok /\ chosen.ok) =>
                IF entry.manifest.id # entry.id
                THEN RegistryFails("Registry manifest id does not match registry entry id")
                ELSE IF entry.manifest.version # entry.version
                THEN RegistryFails(
                       "Registry manifest version does not match registry entry version")
                ELSE IF ManifestVerdict(entry.manifest) # "Ok"
                THEN RegistryFails(ManifestVerdict(entry.manifest))
                ELSE IF ~SignatureIsValid(entry)
                THEN \E result \in SignatureErrors : RegistryFails(result)
                ELSE /\ reg'.pc = "downloading"
                     /\ reg'.selected = chosen.entry
                     /\ ret' = ret

\* a download is only ever requested for an entry whose signature verified
DownloadAfterSignature ==
    reg.pc = "downloading" =>
        /\ SignatureIsValid(Unwrap(reg.selected))
        /\ Unwrap(reg.selected).id = reg.pluginId
        /\ Unwrap(reg.selected).manifest.id = reg.pluginId
        /\ ManifestVerdict(Unwrap(reg.selected).manifest) = "Ok"

\* the handler writes nothing before the download is there, and then only
\* what the core install of bytes with the pinned digest writes
WritesAfterDigestMatch ==
    /\ (reg'.pc # reg.pc /\ ~DownloadStep) => (storeFile' = storeFile /\ tree' = tree)
    /\ (DownloadStep /\ (storeFile' # storeFile \/ tree' # tree)) =>
          /\ DigestMatches
          /\ \E fault \in StoreFaults :
                LET out == install_plugin_from_zip_bytes(
                               tree, storeFile, Unwrap(reg.download).bytes,
                               "registry", "verified", TRUE, fault)
                IN  tree' = out.tree /\ storeFile' = out.file

\* C3: install-from-registry checks id and version, validates the manifest,
\* verifies the signature, downloads, compares the sha256 and installs, in
\* this order; the download is requested only after the signature verified,
\* and nothing is written to the install tree or the store until the sha256
\* of the downloaded bytes matched the entry's.
C3_RegistryOrder ==
    /\ []DownloadAfterSignature
    /\ [][RegistrySegmentsInOrder /\ EntryChecksInOrder /\ WritesAfterDigestMatch]_vars

\* version 1.0.0 of p, pinned by an upper-case digest, is installed from the
\* registry over the sideloaded p
C3_Witness ==
    /\ InstallReturned
    /\ ret.op = "install_from_registry"
    /\ Unwrap(ret.value).version = V100
    /\ TrustOf(IdP) = Some(<< "verified", "registry", TRUE, "verified" >>)
    /\ LockOf(IdP).sha256 = compute_sha256_hex(ArchP1)
    /\ IsInstalled(IdQ)

\* the handler returns without having reached the core install routine
FailsBeforeCore ==
    \/ IndexStep /\ reg'.pc = "idle"
    \/ DownloadStep /\ ~DigestMatches

\* C4: an install-from-registry that fails before the core install routine
\* leaves the store file and the install tree exactly as they were.
C4_RegistryFailureLeavesDisk ==
    [][FailsBeforeCore =>
          /\ ret'.op = "install_from_registry"
          /\ ret'.result # "Ok"
          /\ storeFile' = storeFile
          /\ tree' = tree]_vars

\* the download for the upgrade of an installed p did not match its digest;
\* the records and the directory of p 1.0.0 are there
C4_Witness ==
    /\ ret.op = "install_from_registry"
    /\ ret.result = "SHA256 mismatch for downloaded plugin archive"
    /\ IsInstalled(IdP)
    /\ InstalledOf(IdP).version = V100
    /\ PathExists(tree, InstalledOf(IdP).entryPath)

\* the step is a run of plugin_host_call from its invocation to its return
\* or to the request it sends
HostCallStep ==
    /\ hc.pc = "idle"
    /\ ret = NothingReturned
    /\ hc'.pc = "awaiting" \/ ret'.op = "host_call"

\* the plugin id the call of the step was made for
CalledId == IF hc'.pc = "awaiting" THEN hc'.pluginId ELSE ret'.pluginId

RequestSent == hc.pc = "idle" /\ hc'.pc = "awaiting"

HostCallFails(result) ==
    /\ hc'.pc = "idle"
    /\ ret'.op = "host_call"
    /\ ret'.result = result

IsEnabled(id) == IsInstalled(id) /\ InstalledOf(id).enabled

\* the audit log grew by one entry and kept what it held
AuditGrew ==
    /\ Len(auditLog') = Len(auditLog) + 1
    /\ SubSeq(auditLog', 1, Len(auditLog)) = auditLog

NewLine == auditLog'[Len(auditLog')]

\* the step appended one whole line, for a call made for id
LineWritten(id) ==
    /\ AuditGrew
    /\ ~NewLine.torn
    /\ NewLine.pluginId = id
    /\ NewLine.timestamp = clock

\* network:https is among the manifest's permissions or granted
HoldsNetworkPermission(id) ==
    \/ \E i \in DOMAIN InstalledOf(id).manifest.permissions :
           InstalledOf(id).manifest.permissions[i] = "network:https"
    \/ \E i \in DOMAIN InstalledOf(id).grantedPermissions :
           /\ InstalledOf(id).grantedPermissions[i].permission = "network:https"
           /\ InstalledOf(id).grantedPermissions[i].granted = TRUE

\* C5: a host call for a plugin id that has no installed record, or whose
\* record is disabled, returns an error and sends no request; so every
\* request that is sent is sent for a plugin that is installed and enabled
\* when the call is made.
C5_NoCallForMissingOrDisabled ==
    [][/\ (HostCallStep /\ ~IsEnabled(CalledId)) =>
              /\ hc'.pc = "idle"
              /\ ret'.result \in { "Plugin is not installed", "Plugin is disabled",
                                   "Failed to read plugin store file" }
       /\ RequestSent => IsEnabled(hc'.pluginId)]_vars

\* p holds the permission and allows a host, but is disabled: the call fails
C5_Witness ==
    /\ ret.op = "host_call"
    /\ ret.result = "Plugin is disabled"
    /\ IsInstalled(IdP)
    /\ ~InstalledOf(IdP).enabled
    /\ HoldsNetworkPermission(IdP)
    /\ Len(InstalledOf(IdP).networkAllowlist) > 0

HttpScheme == <<"h","t","t","p">>

\* a request leaves the process: the first one of a call, or the one that
\* follows a redirect
RequestIssued == hc'.pc = "awaiting" /\ hc' # hc

\* the request of the step goes to an https URL whose host is, as a whole
\* and but for case, an entry of the allowlist the handler loaded
RequestIsConfined ==
    /\ hc'.request.ok
    /\ hc'.request.scheme = Https
    /\ IsSome(hc'.request.host)
    /\ \E i \in DOMAIN hc'.allowlist :
           StrLower(hc'.allowlist[i]) = StrLower(Unwrap(hc'.request.host))

\* the allowlist the handler goes by is the stored one of the plugin
AllowlistIsStored ==
    /\ IsInstalled(hc'.pluginId)
    /\ hc'.allowlist = InstalledOf(hc'.pluginId).networkAllowlist

\* the line of the step records a network call with a URL of scheme http
\* made for a plugin that holds the permission
HttpCallLogged ==
    /\ LineWritten(CalledId)
    /\ NewLine.operation \in NetworkOperations
    /\ HoldsNetworkPermission(CalledId)
    /\ IsSome(PayloadUrlStr(NewLine.payload))
    /\ UrlParse(Unwrap(PayloadUrlStr(NewLine.payload))).ok
    /\ UrlParse(Unwrap(PayloadUrlStr(NewLine.payload))).scheme = HttpScheme

HttpIsRejected ==
    (HostCallStep /\ HttpCallLogged) =>
        HostCallFails("Only https:// URLs are allowed for plugin network calls")

\* C6: every request a host call sends has scheme https and a host equal,
\* case-insensitively and as a whole, to an entry of the plugin's stored
\* networkAllowlist (so none is sent for an empty allowlist); an http URL is
\* rejected with the https-only error, and a rejected call sends no request.
C6_AllowlistConfinement ==
    [][/\ RequestSent => AllowlistIsStored
       /\ RequestIssued => RequestIsConfined
       /\ HttpIsRejected]_vars

\* C6, for the URL of the payload alone: the first request of a call is
\* confined to the allowlist, and an http URL is rejected.  What C6 says
\* beyond it, of the requests that follow a redirect, does not hold.
C6_FirstRequestConfined ==
    [][/\ RequestSent => (AllowlistIsStored /\ RequestIsConfined)
       /\ HttpIsRejected]_vars

\* a call of p, made for a URL written in upper case that the mixed-case
\* entry of its allowlist allows, has been redirected: a request to a host
\* that is not in the allowlist is under way
C6_Witness ==
    /\ hc.pc = "awaiting"
    /\ hc.pluginId = IdP
    /\ hc.allowlist = << HostApiMixedCase >>
    /\ hc.url = UrlEvil
    /\ auditLog = << AuditLine(IdP, "network:get_json", PayloadUrl(UrlUpperCase)) >>

\* C7: a network:get_json or network:get_text call for an installed, enabled
\* plugin that neither declares network:https nor has it granted returns
\* "Permission denied: network:https" and sends no request, whatever its
\* payload and allowlist (the call being one whose audit line was written).
C7_PermissionDenied ==
    [][/\ (/\ HostCallStep
           /\ LineWritten(CalledId)
           /\ NewLine.operation \in NetworkOperations
           /\ ~HoldsNetworkPermission(CalledId)) =>
              HostCallFails("Permission denied: network:https")
       /\ RequestSent => HoldsNetworkPermission(hc'.pluginId)]_vars

\* p allows the host and the call names an allowed URL, but network:https
\* is not granted
C7_Witness ==
    /\ ret.op = "host_call"
    /\ ret.result = "Permission denied: network:https"
    /\ IsEnabled(IdP)
    /\ InstalledOf(IdP).version = V100
    /\ Len(auditLog) > 0
    /\ auditLog[Len(auditLog)].payload = PayloadUrl(UrlAllowed)

AllowlistErrors ==
    { "Invalid URL", "Only https:// URLs are allowed for plugin network calls",
      "URL is missing a host", "Plugin has an empty network allowlist",
      "Host is not in plugin allowlist" }

\* the errors of the checks that follow the append
DispatchErrors ==
    AllowlistErrors \cup
    { "Permission denied: network:https", "Payload must include string field 'url'",
      DocumentError }
    \cup { UnsupportedError(call.operation) : call \in HostCalls }

\* the line is that of a call which the checks answer with the result
LineAccountsFor(line, result) ==
    CASE result = "Permission denied: network:https" ->
             line.operation \in NetworkOperations
      [] result = "Payload must include string field 'url'" ->
             /\ line.operation \in NetworkOperations
             /\ ~IsSome(PayloadUrlStr(line.payload))
      [] result \in AllowlistErrors ->
             /\ line.operation \in NetworkOperations
             /\ IsSome(PayloadUrlStr(line.payload))
             /\ enforce_network_allowlist(InstalledOf(line.pluginId),
                                          Unwrap(PayloadUrlStr(line.payload))) = result
      [] result = DocumentError ->
             line.operation \in { "document:get", "document:replace" }
      [] OTHER ->
             /\ line.operation \notin
                    NetworkOperations \cup { "audit:log", "document:get", "document:replace" }
             /\ result = UnsupportedError(line.operation)

\* C8: the audit line is appended before the permission, payload and
\* allowlist checks: a call that ends in a permission denial, a payload or
\* allowlist rejection, a reserved-operation error or an unsupported-
\* operation error has added exactly one line, with the plugin id,
\* operation and payload of that call.
C8_AuditBeforeChecks ==
    [][(HostCallStep /\ ret'.result \in DispatchErrors) =>
           /\ LineWritten(CalledId)
           /\ LineAccountsFor(NewLine, ret'.result)]_vars

\* a call for a host that only ends with the allowed one was rejected, and
\* its line is the second of the log
C8_Witness ==
    /\ ret.op = "host_call"
    /\ ret.result = "Host is not in plugin allowlist"
    /\ Len(auditLog) = 2
    /\ auditLog[2].pluginId = IdP
    /\ auditLog[2].operation = "network:get_json"
    /\ auditLog[2].payload = PayloadUrl(UrlSuffixHost)

AuditErrors ==
    { "Failed to open plugin audit log", "Failed to write plugin audit log entry" }

\* the errors of the steps that come before the append
LookupErrors ==
    { "Plugin is not installed", "Plugin is disabled",
      "Failed to read plugin store file" }

\* a host call adds one whole line unless it fails before the append, where
\* it adds nothing, or in the append, where it adds at most a piece of a line
CallAddsItsLine ==
    HostCallStep =>
        IF hc'.pc = "idle" /\ ret'.result \in LookupErrors
        THEN auditLog' = auditLog
        ELSE IF hc'.pc = "idle" /\ ret'.result \in AuditErrors
        THEN auditLog' = auditLog \/ (AuditGrew /\ NewLine.torn)
        ELSE LineWritten(CalledId)

\* what the log holds stays, in its place
LogIsKept ==
    /\ Len(auditLog') >= Len(auditLog)
    /\ SubSeq(auditLog', 1, Len(auditLog)) = auditLog
    /\ ~HostCallStep => auditLog' = auditLog

RootRemoved ==
    /\ ret = NothingReturned
    /\ ret' = Returned("install_from_file", IdDotDot,
                       "Failed to remove plugin directory", None)
    /\ auditLog' = << >>
    /\ storeFile' = MissingFile

C10_AuditFailureIsFatal ==
    [][HostCallStep =>
          /\ (hc'.pc = "awaiting" \/ ret'.result = "Ok") => LineWritten(CalledId)
          /\ (IsEnabled(CalledId) /\ ~LineWritten(CalledId)) =>
                 /\ hc'.pc = "idle"
                 /\ ret'.result \in AuditErrors \cup { "Failed to read plugin store file" }]_vars

\* the write of the line failed part-way for a call of p, which holds the
\* permission and an allowlist: the call returned the error
C10_Witness ==
    /\ ret.op = "host_call"
    /\ ret.result = "Failed to write plugin audit log entry"
    /\ hc.pc = "idle"
    /\ IsEnabled(IdP)
    /\ HoldsNetworkPermission(IdP)
    /\ Len(InstalledOf(IdP).networkAllowlist) > 0
    /\ Len(auditLog) > 0
    /\ auditLog[Len(auditLog)].torn

\* the operation names the match of plugin_host_call has an arm for
KnownOperations ==
    NetworkOperations \cup { "audit:log", "document:get", "document:replace" }

\* the call of the step returns the value, and sends no request
HostCallReturns(value) ==
    /\ hc'.pc = "idle"
    /\ ret' = Returned("host_call", CalledId, "Ok", Some(value))

\* C11: for an installed, enabled plugin whose audit line was written,
\* audit:log returns {ok:true} whatever the permissions and the payload;
\* document:get and document:replace return the brokered-by-the-frontend
\* error; an operation name other than network:get_json, network:get_text,
\* audit:log, document:get and document:replace returns "Unsupported host
\* operation '<op>'" with that name; none of these sends a request.
C11_FixedAnswers ==
    [][(HostCallStep /\ LineWritten(CalledId)) =>
          /\ NewLine.operation = "audit:log" => HostCallReturns([ ok |-> TRUE ])
          /\ NewLine.operation \in { "document:get", "document:replace" } =>
                 /\ HostCallFails(DocumentError)
                 /\ ret'.value = None
          /\ NewLine.operation \notin KnownOperations =>
                 /\ HostCallFails(UnsupportedError(NewLine.operation))
                 /\ ret'.value = None
          /\ NewLine.operation \notin NetworkOperations => ~RequestIssued]_vars

\* audit:log, with a payload that names a host outside the allowlist, has
\* returned {ok:true} to p, which does not hold network:https
C11_Witness ==
    /\ ret = Returned("host_call", IdP, "Ok", Some([ ok |-> TRUE ]))
    /\ IsEnabled(IdP)
    /\ ~HoldsNetworkPermission(IdP)
    /\ Len(auditLog) > 0
    /\ auditLog[Len(auditLog)].operation = "audit:log"
    /\ auditLog[Len(auditLog)].payload = PayloadUrl(UrlEvil)

\* the step is a run, or the last segment, of an install handler that
\* returns the installed record
InstallSucceeds ==
    /\ ret = NothingReturned
    /\ ret'.op \in { "install_from_file", "install_from_registry" }
    /\ ret'.result = "Ok"

\* every entry is granted = false with no grantedAt
NothingGranted(grants) ==
    \A i \in DOMAIN grants : ~grants[i].granted /\ grants[i].grantedAt = None

\* the installed record and the lock record of id are those of an install
\* made now
FreshRecords(id) ==
    /\ InstalledCount(id) = 1
    /\ LockCount(id) = 1
    /\ InstalledOf(id).enabled
    /\ InstalledOf(id).crashCount = 0
    /\ NothingGranted(InstalledOf(id).grantedPermissions)
    /\ InstalledOf(id).installedAt = clock
    /\ InstalledOf(id).updatedAt = clock
    /\ LockOf(id).enabled
    /\ LockOf(id).grantedPermissions = InstalledOf(id).grantedPermissions
    /\ LockOf(id).version = InstalledOf(id).version
    /\ LockOf(id).updatedAt = clock
    /\ \E zip_bytes \in ArchivePool :
           /\ zip_bytes.manifest = Some(InstalledOf(id).manifest)
           /\ LockOf(id).sha256 = compute_sha256_hex(zip_bytes)

\* C12: a successful install, also of an id that is already installed,
\* leaves an installed record with enabled = true, crashCount = 0, every
\* grant granted = false with no grantedAt and installedAt = updatedAt = the
\* time of the install, and a lock record replaced likewise (enabled, the
\* same grants, the sha256 and version of the new archive), whatever the
\* record it replaces held; the handler returns that installed record.
C12_ReinstallResets ==
    [][InstallSucceeds =>
          \A id \in PluginIds : ret'.pluginId = id =>
              /\ FreshRecords(id)'
              /\ ret'.value = Some(InstalledOf(id)')]_vars

\* p 1.1.0 has been installed from the registry at a later time than q and
\* stands enabled with its grant not granted
C12_Witness ==
    /\ InstallReturned
    /\ ret.op = "install_from_registry"
    /\ ret.pluginId = IdP
    /\ InstalledOf(IdP).version = V110
    /\ InstalledOf(IdP).installedAt = MaxClock
    /\ InstalledOf(IdP).enabled
    /\ Len(InstalledOf(IdP).grantedPermissions) > 0
    /\ NothingGranted(InstalledOf(IdP).grantedPermissions)
    /\ IsInstalled(IdQ)
    /\ InstalledOf(IdQ).installedAt = 0

\* installed/<sanitize(id)>/ holds the version directory of the installed
\* record of id and no other, and that directory holds what the archive of
\* the record's manifest extracts to and nothing else
OnlyInstalledVersion(id) ==
    /\ Cardinality(tree[sanitize_plugin_id(id)]) = 1
    /\ \E zip_bytes \in ArchivePool :
           /\ zip_bytes.manifest = Some(InstalledOf(id).manifest)
           /\ tree[sanitize_plugin_id(id)] =
                  { extract_zip_to_directory(
                        zip_bytes, EmptyVersionDir(InstalledOf(id).version)).vdir }

\* no version directory of id of another version than the one now installed
\* is left by the step
OldVersionsGone(id) ==
    \A v \in tree[sanitize_plugin_id(id)] :
        v.version # InstalledOf(id)'.version =>
            ~HasVersion(tree', sanitize_plugin_id(id), v.version)

\* C13: after a successful install of id at version V the directory
\* installed/<sanitize(id)>/ holds only the tree extracted for V; the
\* directory of a version of id that was installed before is gone.
C13_OnlyNewVersionOnDisk ==
    [][InstallSucceeds =>
          \A id \in PluginIds : ret'.pluginId = id =>
              /\ OnlyInstalledVersion(id)'
              /\ OldVersionsGone(id)]_vars

\* p 1.1.0 has been installed from a file at a later time than q; the
\* directory of p holds the tree of 1.1.0 alone, with its entry file
C13_Witness ==
    /\ InstallReturned
    /\ ret.op = "install_from_file"
    /\ ret.pluginId = IdP
    /\ InstalledOf(IdP).version = V110
    /\ InstalledOf(IdP).installedAt = MaxClock
    /\ HasVersion(tree, sanitize_plugin_id(IdP), V110)
    /\ ~HasVersion(tree, sanitize_plugin_id(IdP), V100)
    /\ PathExists(tree, InstalledOf(IdP).entryPath)
    /\ IsInstalled(IdQ)
    /\ InstalledOf(IdQ).installedAt = 0

\* the permissions a list of grants, and a manifest's optionalPermissions,
\* name
GrantedNames(grants) == { grants[i].permission : i \in DOMAIN grants }

DeclaredNames(manifest) ==
    { manifest.optionalPermissions[i] : i \in DOMAIN manifest.optionalPermissions }

EntriesFor(grants, permission) ==
    Cardinality({ i \in DOMAIN grants : grants[i].permission = permission })

\* C14: in every store state each installed record's grantedPermissions
\* holds exactly one entry per permission its manifest declares in
\* optionalPermissions and no entry for another permission, whatever grants
\* update-permissions was passed and whatever the optionalPermissions list
\* looks like, repeated entries included.
C14_OneGrantPerPermission ==
    \A k \in DOMAIN StoredPlugins :
        /\ GrantedNames(StoredPlugins[k].grantedPermissions)
               = DeclaredNames(StoredPlugins[k].manifest)
        /\ \A permission \in DeclaredNames(StoredPlugins[k].manifest) :
               EntriesFor(StoredPlugins[k].grantedPermissions, permission) = 1

\* what holds of the grants: one entry per element of optionalPermissions,
\* in the order of the list, so the same permissions and no other; the
\* entries of one permission agree; the lock record holds the same grants
C14_OneGrantPerDeclaration ==
    \A k \in DOMAIN StoredPlugins :
        LET grants   == StoredPlugins[k].grantedPermissions
            declared == StoredPlugins[k].manifest.optionalPermissions
        IN  /\ Len(grants) = Len(declared)
            /\ \A i \in DOMAIN grants : grants[i].permission = declared[i]
            /\ \A i, j \in DOMAIN grants :
                   grants[i].permission = grants[j].permission => grants[i] = grants[j]
            /\ LockCount(StoredPlugins[k].id) = 1
            /\ LockOf(StoredPlugins[k].id).grantedPermissions = grants

\* q, whose manifest lists network:https twice, has been granted it: its
\* record holds two entries for the permission
C14_Witness ==
    /\ ret.op = "update_permissions"
    /\ ret.result = "Ok"
    /\ ret.pluginId = IdQ
    /\ IsInstalled(IdQ)
    /\ EntriesFor(InstalledOf(IdQ).grantedPermissions, "network:https") = 2
    /\ \A i \in DOMAIN InstalledOf(IdQ).grantedPermissions :
           InstalledOf(IdQ).grantedPermissions[i].permission = "network:https"
               => InstalledOf(IdQ).grantedPermissions[i].granted

\* the request names a permission that the stored record of id does not
\* declare as optional
NamesUndeclared(id, permissions) ==
    \E i \in DOMAIN permissions :
        permissions[i].permission \notin DeclaredNames(InstalledOf(id).manifest)

\* update-permissions for an id that is not installed, or with a request
\* that names an undeclared permission, returns an error and writes nothing,
\* whatever else the request holds and whether or not the store can be read
\* and written
BadRequestChangesNothing ==
    \A id \in PluginIds, permissions \in GrantRequests, fault \in StoreFaults :
        (~IsInstalled(id) \/ NamesUndeclared(id, permissions)) =>
            LET out == plugin_update_permissions(tree, storeFile, id, permissions, fault)
            IN  /\ out.result # "Ok"
                /\ out.value = None
                /\ out.file = storeFile
                /\ out.tree = tree

\* a run of update-permissions that returns one of the two errors has left
\* the store file, and so every grant and every updatedAt, as it was
RejectedUpdateWritesNothing ==
    (/\ HandlerReturns("update_permissions")
     /\ ret'.result \in { "Plugin is not installed",
                          "Permission is not declared as optional by plugin" }) =>
        /\ storeFile' = storeFile
        /\ tree' = tree

\* C15: update-permissions whose request holds a permission that is not in
\* the plugin's declared optionalPermissions, or whose plugin id is not
\* installed, returns an error and leaves the store unchanged: no grant is
\* modified, not even for the valid permissions of the request, and
\* updatedAt is not touched.
C15_BadUpdateLeavesStore ==
    /\ []BadRequestChangesNothing
    /\ [][RejectedUpdateWritesNothing]_vars

\* a request for p was rejected for a permission p does not declare, at a
\* later time than p was installed: network:https is not granted and
\* updatedAt is the time of the install
C15_Witness ==
    /\ ret = Returned("update_permissions", IdP,
                      "Permission is not declared as optional by plugin", None)
    /\ IsInstalled(IdP)
    /\ clock = MaxClock
    /\ InstalledOf(IdP).updatedAt = 0
    /\ LockOf(IdP).updatedAt = 0
    /\ NothingGranted(InstalledOf(IdP).grantedPermissions)
    /\ NothingGranted(LockOf(IdP).grantedPermissions)

\* the installed records, and the lock records, of every id but the given
\* one, in their order
OtherPlugins(plugins, id) == Retain(plugins, LAMBDA p : p.id # id)

OtherLocks(locks, id) == Retain(locks, LAMBDA r : r.pluginId # id)

\* the step removes the records and the directory of id and nothing else
RemovesOnly(id) ==
    /\ IsInstalled(id)
    /\ storeFile'.kind = "json"
    /\ \A k \in DOMAIN StoredPlugins' : StoredPlugins'[k].id # id
    /\ \A k \in DOMAIN StoredLocks' : StoredLocks'[k].pluginId # id
    /\ StoredPlugins' = OtherPlugins(StoredPlugins, id)
    /\ StoredLocks' = OtherLocks(StoredLocks, id)
    /\ tree' = [ tree EXCEPT ![sanitize_plugin_id(id)] = {} ]

\* C16: uninstall of an id that has no installed record returns an error and
\* leaves the store and the install tree unchanged; a successful uninstall
\* of id removes the installed record, the lock record and the install
\* directory of id and leaves the installed record, the lock record and the
\* directory of every other plugin unchanged.
C16_UninstallRemovesOne ==
    [][HandlerReturns("uninstall") =>
          \A id \in PluginIds : ret'.pluginId = id =>
              /\ ~IsInstalled(id) =>
                     /\ ret'.result # "Ok"
                     /\ storeFile' = storeFile
                     /\ tree' = tree
              /\ ret'.result = "Ok" => RemovesOnly(id)]_vars

\* p has been uninstalled: no record and no directory of p is left; q,
\* installed when the clock had advanced, has its records and its entry file
C16_Witness ==
    /\ ret = Returned("uninstall", IdP, "Ok", None)
    /\ ~IsInstalled(IdP)
    /\ LockCount(IdP) = 0
    /\ tree[sanitize_plugin_id(IdP)] = {}
    /\ IsInstalled(IdQ)
    /\ LockCount(IdQ) = 1
    /\ InstalledOf(IdQ).installedAt = MaxClock
    /\ PathExists(tree, InstalledOf(IdQ).entryPath)

\* the archives whose manifest validate_manifest rejects, and the errors it
\* rejects them with
RejectedArchives ==
    { zip_bytes \in ArchivePool :
          /\ zip_bytes.zipOk
          /\ IsSome(zip_bytes.manifest)
          /\ ManifestVerdict(Unwrap(zip_bytes.manifest)) # "Ok" }

ValidationErrors ==
    { ManifestVerdict(Unwrap(zip_bytes.manifest)) : zip_bytes \in RejectedArchives }

\* the install of an archive with a rejected manifest returns the
\* validator's error and writes nothing, whatever the store and the tree
\* hold and whether or not the store can be read and written
RejectedArchiveWritesNothing ==
    \A zip_bytes \in RejectedArchives, fault \in StoreFaults :
        LET out == plugin_install_from_file(zip_bytes, fault)
        IN  /\ out.result = ManifestVerdict(Unwrap(zip_bytes.manifest))
            /\ out.value = None
            /\ out.file = storeFile
            /\ out.tree = tree

\* an install that returns an error of the validator has left the store
\* file and the install tree as they were
RejectedInstallWritesNothing ==
    (/\ ret = NothingReturned
     /\ ret'.op \in { "install_from_file", "install_from_registry" }
     /\ ret'.result \in ValidationErrors) =>
        /\ storeFile' = storeFile
        /\ tree' = tree

\* C17: when the archive's manifest fails validation (an activation event
\* onCommand:foo with no command foo) the install fails before anything is
\* written: the store is unchanged, no directory is created or removed
\* under installed/, and a version of the same id that was installed before
\* stays intact on disk and in the store.
C17_InvalidManifestWritesNothing ==
    /\ []RejectedArchiveWritesNothing
    /\ [][RejectedInstallWritesNothing]_vars

\* the archive of p 1.1.0 with the dangling activation event was rejected;
\* p 1.0.0 is in the store and its tree is on disk
C17_Witness ==
    /\ ret = Returned("install_from_file", IdP, ManifestVerdict(ManifestDangling), None)
    /\ ret.result # "Ok"
    /\ IsInstalled(IdP)
    /\ InstalledOf(IdP).version = V100
    /\ LockOf(IdP).version = V100
    /\ tree[sanitize_plugin_id(IdP)]
           = { extract_zip_to_directory(ArchP1, EmptyVersionDir(V100)).vdir }
    /\ PathExists(tree, InstalledOf(IdP).entryPath)

\* the lock record of id in a store file
LockIn(file, id) ==
    file.store.lockRecords[FindIndex(file.store.lockRecords,
                                     LAMBDA r : r.pluginId = id)]

\* every installed record has one lock record, of its version
LockHasRecordVersion ==
    \A id \in PluginIds : IsInstalled(id) =>
        /\ LockCount(id) = 1
        /\ LockOf(id).version = InstalledOf(id).version

\* an install from a file that succeeds leaves a lock record with the
\* digest of the bytes of the file and the version of their manifest
SideloadLocksItsBytes ==
    \A zip_bytes \in ArchivePool :
        LET out == plugin_install_from_file(zip_bytes, NoFault)
        IN  out.result = "Ok" =>
                /\ LockIn(out.file, ArchiveId(zip_bytes)).sha256
                       = compute_sha256_hex(zip_bytes)
                /\ LockIn(out.file, ArchiveId(zip_bytes)).version
                       = Unwrap(zip_bytes.manifest).version

\* an install from the registry that succeeds leaves a lock record with the
\* digest of the downloaded bytes, which is the entry's sha256 but for case
RegistryLocksItsBytes ==
    (DownloadStep /\ ret'.result = "Ok") =>
        \A id \in PluginIds : ret'.pluginId = id =>
            /\ LockCount(id)' = 1
            /\ LockOf(id)'.sha256 = compute_sha256_hex(Unwrap(reg.download).bytes)
            /\ eq_ignore_ascii_case(LockOf(id)'.sha256, Unwrap(reg.selected).sha256)
            /\ LockOf(id)'.version = Unwrap(Unwrap(reg.download).bytes.manifest).version

\* a step that is no install of id leaves the sha256 of the lock record of
\* id, if it leaves the record, as it was
TogglesKeepDigest ==
    (HandlerReturns("enable_disable") \/ HandlerReturns("update_permissions")) =>
        \A id \in PluginIds :
            (LockCount(id) > 0 /\ LockCount(id)' > 0) =>
                /\ LockOf(id)'.sha256 = LockOf(id).sha256
                /\ LockOf(id)'.version = LockOf(id).version

\* C18: the sha256 of every lock record is the SHA-256 of the archive bytes
\* of the install that created it (for an install from the registry it also
\* equals the entry's sha256 but for case), its version is the installed
\* record's version, and enable-disable and update-permissions never change
\* the sha256.
C18_LockDigest ==
    /\ [](LockHasRecordVersion /\ SideloadLocksItsBytes)
    /\ [][RegistryLocksItsBytes /\ TogglesKeepDigest]_vars

\* p 1.0.0 was installed from the registry, whose entry writes the digest
\* in upper case, then granted network:https and disabled: its lock record
\* holds the digest of the archive in lower case
C18_Witness ==
    /\ ret.op = "enable_disable"
    /\ ret.result = "Ok"
    /\ ret.pluginId = IdP
    /\ TrustOf(IdP) = Some(<< "verified", "registry", TRUE, "verified" >>)
    /\ LockOf(IdP).version = V100
    /\ LockOf(IdP).sha256 = compute_sha256_hex(ArchP1)
    /\ LockOf(IdP).sha256 # EntryP1.sha256
    /\ ~LockOf(IdP).enabled
    /\ ~NothingGranted(LockOf(IdP).grantedPermissions)

\* a call of validate_manifest has returned: its manifest and its verdict
Validated == ret.op = "validate_manifest"

ValidatedManifest == Unwrap(ret.value)

\* the rule, of the thirteen, that an error of validate_manifest reports
RuleOf(error) ==
    CASE error = "Unsupported manifest schemaVersion" -> 1
      [] error = "Invalid plugin id" -> 2
      [] error = "Plugin name is required" -> 3
      [] error = "Plugin version must be valid semver" -> 4
      [] error \in { "Plugin entry path is required",
                     "Plugin entry path must be a relative path within the archive" } -> 5
      [] error \in { "Failed to parse app version",
                     "Invalid engine.grainery version requirement",
                     "Plugin engine mismatch" } -> 6
      [] error \in { "Failed to parse plugin API version",
                     "Invalid engine.pluginApi version requirement",
                     "Failed to parse required plugin API range",
                     "Plugin API mismatch", "Host plugin API range misconfigured",
                     "Plugin engine.pluginApi must be exactly the required range" } -> 7
      [] error = "Unknown core permission" -> 8
      [] error = "Unknown optional permission" -> 9
      [] error \in { "activationEvents must include at least one event",
                     "Invalid activation event" } -> 10
      [] error \in { ContributionIdError[kind] : kind \in DOMAIN ContributionIdError }
                   \cup { "Invalid transform contribution id" } -> 11
      [] error = "Invalid transform hook" -> 12
      [] error \in { ActivationMissingError[kind] : kind \in DOMAIN ActivationMissingError }
                   \cup { "references missing transform hook contribution" } -> 13
      [] OTHER -> 0

\* the version satisfies the range
Satisfies(range, version) ==
    /\ IsSome(VersionReqParse(range))
    /\ IsSome(VersionParse(version))
    /\ VersionReqMatches(Unwrap(VersionReqParse(range)), Unwrap(VersionParse(version)))

\* a contribution of one of the seven kinds that have an id only has an
\* invalid id; a transform has one
PlainIdInvalid(manifest) ==
    \E k \in DOMAIN ContributionKinds :
        \E i \in DOMAIN manifest.contributes[ContributionKinds[k]] :
            ~validate_local_contribution_id(
                 manifest.contributes[ContributionKinds[k]][i].id)

TransformIdInvalid(manifest) ==
    \E i \in DOMAIN manifest.contributes.transforms :
        ~validate_local_contribution_id(manifest.contributes.transforms[i].id)

\* the manifest breaks the rule, by the wording of the rule
Breaks(manifest, rule) ==
    CASE rule = 1  -> manifest.schemaVersion # 1
      [] rule = 2  -> ~validate_plugin_id(manifest.id)
      [] rule = 3  -> TrimIsEmpty(manifest.name)
      [] rule = 4  -> ~IsSome(VersionParse(manifest.version))
      [] rule = 5  -> \/ TrimIsEmpty(manifest.entry)
                      \/ PathIsAbsolute(manifest.entry)
                      \/ \E i \in DOMAIN PathParts(manifest.entry) :
                             PathParts(manifest.entry)[i] = <<".", ".">>
      [] rule = 6  -> ~Satisfies(manifest.engine.grainery, CARGO_PKG_VERSION)
      [] rule = 7  -> \/ ~Satisfies(manifest.engine.pluginApi, PLUGIN_API_VERSION)
                      \/ manifest.engine.pluginApi # REQUIRED_PLUGIN_API_RANGE
      [] rule = 8  -> \E i \in DOMAIN manifest.permissions :
                          ~is_core_permission(manifest.permissions[i])
      [] rule = 9  -> \E i \in DOMAIN manifest.optionalPermissions :
                          ~is_optional_permission(manifest.optionalPermissions[i])
      [] rule = 10 -> \/ manifest.activationEvents = << >>
                      \/ \E i \in DOMAIN manifest.activationEvents :
                             ~is_valid_activation_event(manifest.activationEvents[i])
      [] rule = 11 -> PlainIdInvalid(manifest) \/ TransformIdInvalid(manifest)
      [] rule = 12 -> \E i \in DOMAIN manifest.contributes.transforms :
                          ~is_supported_transform_hook(
                               manifest.contributes.transforms[i].hook)
      [] rule = 13 -> \E i \in DOMAIN manifest.activationEvents :
                          /\ is_valid_activation_event(manifest.activationEvents[i])
                          /\ CheckActivationReference(manifest.activationEvents[i],
                                                      manifest.contributes) # "Ok"

BrokenRules(manifest) == { rule \in 1..13 : Breaks(manifest, rule) }

\* the verdict is "Ok" for a manifest that breaks no rule and else the error
\* of a rule the manifest breaks
ReportsBrokenRule ==
    Validated =>
        IF BrokenRules(ValidatedManifest) = {} THEN ret.result = "Ok"
        ELSE RuleOf(ret.result) \in BrokenRules(ValidatedManifest)

FirstBadTransformHasValidId(manifest) ==
    LET transforms == manifest.contributes.transforms
        k == FirstBad(transforms,
                      LAMBDA t : /\ validate_local_contribution_id(t.id)
                                 /\ is_supported_transform_hook(t.hook))
    IN  k # 0 /\ validate_local_contribution_id(transforms[k].id)

\* the rules the manifest breaks, rule 5 counted as broken also by an entry
\* that holds two consecutive dots anywhere, as validate_manifest checks it
\* (line 418)
RejectingRules(manifest) ==
    BrokenRules(manifest)
        \cup (IF StrContains(manifest.entry, <<".",".">>) THEN { 5 } ELSE {})

\* the verdict is "Ok" for a manifest that no rule rejects and else the
\* error of a rule that rejects it
ReportsRejectingRule ==
    Validated =>
        IF RejectingRules(ValidatedManifest) = {} THEN ret.result = "Ok"
        ELSE RuleOf(ret.result) \in RejectingRules(ValidatedManifest)

RefersToContribution(event, contributes) ==
    \/ \E k \in DOMAIN ActivationPrefixes :
           \E i \in DOMAIN contributes[ActivationKinds[k]] :
               event = ActivationPrefixes[k] \o contributes[ActivationKinds[k]][i].id
    \/ \E i \in DOMAIN contributes.transforms :
           event = OnTransformPrefix \o contributes.transforms[i].hook

BackReferencesHold(manifest) ==
    /\ Len(manifest.activationEvents) > 0
    /\ \A i \in DOMAIN manifest.activationEvents :
           manifest.activationEvents[i] # OnStartup =>
               RefersToContribution(manifest.activationEvents[i], manifest.contributes)

\* C20: for every manifest validate_manifest accepts, and so for every
\* manifest stored in an installed record, activationEvents is non-empty
\* and every activation event other than onStartup refers to a contribution
\* that exists in contributes: on<Kind>:<localId> to a contribution of that
\* kind with the id localId, onTransform:<hook> to a transform with that
\* hook.
C20_BackReferences ==
    /\ (Validated /\ ret.result = "Ok") => BackReferencesHold(ValidatedManifest)
    /\ \A k \in DOMAIN StoredPlugins : BackReferencesHold(StoredPlugins[k].manifest)

\* the installed record of p holds a manifest whose one event is
\* onStatusBadge:x and whose one contribution is the status badge x
C20_Witness ==
    /\ InstallReturned
    /\ IsInstalled(IdP)
    /\ InstalledOf(IdP).manifest = KindManifest(6, 6)
    /\ InstalledOf(IdP).manifest.activationEvents
           = << <<"o","n","S","t","a","t","u","s","B","a","d","g","e",":","x">> >>
    /\ Len(InstalledOf(IdP).manifest.contributes.statusBadges) = 1

\* the ranges of the pool that the host plugin API version 1.2.0 satisfies,
\* and those it does not satisfy, by the rules of semantic versioning
SatisfiedByHostApi ==
    { <<"^","1",".","2",".","0">>, <<">","=","1",".","0",".","0">>, <<"*">>, <<"1",".","2",".","0">>, <<"=","1",".","2",".","0">>, <<"~","1",".","2",".","0">>, <<"^","1",".","0",".","0">>,
      <<"<","=","1",".","2",".","0">>, <<">","1",".","1",".","9">>, <<"<","2",".","0",".","0">> }

UnsatisfiedByHostApi ==
    { <<"^","2",".","0",".","0">>, <<">","1",".","2",".","0">>, <<"<","1",".","2",".","0">>, <<"^","1",".","3",".","0">>, <<"=","1",".","0",".","0">>, <<"~","1",".","1",".","0">>,
      <<">","=","1",".","2",".","1">>, <<"<","=","1",".","1",".","9">>, <<"^","0",".","1",".","2">> }

\* the verdict on a manifest that no rule before the one on engine.pluginApi
\* rejects
ApiRangeVerdict(manifest, verdict) ==
    LET range == manifest.engine.pluginApi
    IN  /\ verdict = "Ok" => range = <<"^","1",".","2",".","0">>
        /\ (range \in SatisfiedByHostApi /\ range # <<"^","1",".","2",".","0">>) =>
               verdict = "Plugin engine.pluginApi must be exactly the required range"
        /\ range \in UnsatisfiedByHostApi => verdict = "Plugin API mismatch"

\* C21: validate_manifest accepts engine.pluginApi only if it is exactly the
\* string ^1.2.0; another string is rejected also when it is a valid range
\* that the host plugin API version 1.2.0 satisfies, and a range that the
\* host version does not satisfy is rejected with the API-mismatch error.
C21_PinnedApiRange ==
    /\ Validated => (ret.result = "Ok" =>
                         ValidatedManifest.engine.pluginApi = <<"^","1",".","2",".","0">>)
    /\ (Validated /\ RuleOf(ret.result) \notin 1..6) =>
           ApiRangeVerdict(ValidatedManifest, ret.result)
    /\ \A k \in DOMAIN StoredPlugins :
           StoredPlugins[k].manifest.engine.pluginApi = <<"^","1",".","2",".","0">>

\* validate_manifest has rejected the range >=1.0.0 for not being the
\* pinned string
C21_Witness ==
    /\ Validated
    /\ ValidatedManifest = RangeManifest(<<">","=","1",".","0",".","0">>)
    /\ ret.result = "Plugin engine.pluginApi must be exactly the required range"

\* one of the segments of the path is ".."
HasParentSegment(path) ==
    \E i \in DOMAIN SplitOn(path, "/") : SplitOn(path, "/")[i] = <<".",".">>

\* what rule 5 forbids: an entry that is blank, absolute or has a segment ".."
EntryForbidden(entry) ==
    \/ \A i \in DOMAIN entry : entry[i] = " "
    \/ (Len(entry) > 0 /\ entry[1] = "/")
    \/ HasParentSegment(entry)

\* C22: rule 5 of validate_manifest rejects an entry exactly when it is
\* empty after trim, is an absolute path or has a segment ".."; a relative
\* entry with no segment ".." passes rule 5, also when the name of one of
\* its segments holds two consecutive dots.
C22_EntryRule ==
    (Validated /\ BrokenRules(ValidatedManifest) \cap (1..4) = {}) =>
        (RuleOf(ret.result) = 5 <=> EntryForbidden(ValidatedManifest.entry))

\* validate_manifest has returned the error of rule 5 for the relative entry
\* a..b/main.js, which has the segments a..b and main.js
C22_Witness ==
    /\ Validated
    /\ ValidatedManifest = EntryManifest(<<"a",".",".","b","/","m","a","i","n",".","j","s">>)
    /\ SplitOn(ValidatedManifest.entry, "/") = << <<"a",".",".","b">>, <<"m","a","i","n",".","j","s">> >>
    /\ ~EntryForbidden(ValidatedManifest.entry)
    /\ ret.result = "Plugin entry path must be a relative path within the archive"

\* the declared path is absolute or one of its segments is ".."
UnsafeName(name) == (Len(name) > 0 /\ name[1] = "/") \/ HasParentSegment(name)

\* the archives with an entry of an unsafe path, and the contents of such
\* entries, which no other entry holds
UnsafeArchives ==
    { zip_bytes \in ExtractArchives :
          \E i \in DOMAIN zip_bytes.entries : UnsafeName(zip_bytes.entries[i].name) }

UnsafeContents ==
    UNION { { zip_bytes.entries[i].content :
                  i \in { j \in DOMAIN zip_bytes.entries :
                              UnsafeName(zip_bytes.entries[j].name) } } :
            zip_bytes \in UnsafeArchives }

\* the contents of the files below installed/
FilesOnDisk(t) ==
    { f.content : f \in UNION { v.files : v \in UNION { t[d] : d \in DOMAIN t } } }

\* the install of an archive with an unsafe entry fails, leaves the store
\* file as it is and writes no unsafe entry that was not on disk before,
\* whatever the store and the tree hold
UnsafeArchiveFails(unsafe) ==
    \A zip_bytes \in unsafe, fault \in StoreFaults :
        LET out == plugin_install_from_file(zip_bytes, fault)
        IN  /\ out.result # "Ok"
            /\ out.value = None
            /\ out.file = storeFile
            /\ FilesOnDisk(out.tree) \cap UnsafeContents \subseteq FilesOnDisk(tree)

\* C23: extraction never writes to disk an archive entry whose declared
\* path is absolute or holds a segment "..": the first such entry aborts the
\* extraction, the install returns an error and the store is not updated by
\* that install.
C23_UnsafeEntriesNeverWritten ==
    /\ FilesOnDisk(tree) \cap UnsafeContents = {}
    /\ \A k \in DOMAIN StoredLocks :
           StoredLocks[k].sha256
               \notin { compute_sha256_hex(zip_bytes) : zip_bytes \in UnsafeArchives }

\* the archives with an entry whose path is absolute or climbs above the
\* directory it is extracted into
Climbs(name) ==
    \E n \in 1..Len(SplitOn(name, "/")) :
        LET head == SubSeq(SplitOn(name, "/"), 1, n)
        IN  Cardinality({ i \in 1..n : head[i] = <<".",".">> })
                > Cardinality({ i \in 1..n : head[i] \notin { <<".",".">>, <<".">>, << >> } })

Escapes(name) == (Len(name) > 0 /\ name[1] = "/") \/ Climbs(name)

EscapingArchives ==
    { zip_bytes \in ExtractArchives :
          \E i \in DOMAIN zip_bytes.entries : Escapes(zip_bytes.entries[i].name) }

EscapingContents ==
    UNION { { zip_bytes.entries[i].content :
                  i \in { j \in DOMAIN zip_bytes.entries :
                              Escapes(zip_bytes.entries[j].name) } } :
            zip_bytes \in EscapingArchives }

\* what holds of every archive with an entry that is absolute or climbs
\* above the version directory: its install fails and leaves the store file
\* as it is, and no such entry is written
C23_EscapingEntriesNeverWritten ==
    /\ UnsafeArchiveFails(EscapingArchives)
    /\ EscapingContents = { "E", "out", "up", "abs", "climb" }
    /\ FilesOnDisk(tree) \cap EscapingContents = {}
    /\ \A k \in DOMAIN StoredLocks :
           StoredLocks[k].sha256
               \notin { compute_sha256_hex(zip_bytes) : zip_bytes \in EscapingArchives }

\* the install of the archive with the entry lib/../inner.js has succeeded:
\* the content of that entry is in a file of the version directory of p
C23_Witness ==
    /\ ret.op = "install_from_file"
    /\ ret.result = "Ok"
    /\ IsInstalled(IdP)
    /\ "inner" \in UnsafeContents
    /\ \E v \in tree[sanitize_plugin_id(IdP)] :
           \E f \in v.files : f.content = "inner" /\ f.place = << <<"i","n","n","e","r",".","j","s">> >>

\* ids made only of the characters [A-Za-z0-9._-]
SafeIds == { IdP, IdQ, IdDot, IdDotDot, <<"a",".","b","-","c","_","D","9">>, <<"-">>, <<"_","x",".">>, <<"Z","0">> }

SanitizeIsIdentity == \A id \in SafeIds : sanitize_plugin_id(id) = id

\* two installed records with distinct ids have distinct directories
DistinctDirectories ==
    \A i, j \in DOMAIN StoredPlugins :
        StoredPlugins[i].id # StoredPlugins[j].id =>
            sanitize_plugin_id(StoredPlugins[i].id) # sanitize_plugin_id(StoredPlugins[j].id)

\* an install or an uninstall of one id leaves the directory of every other
\* installed plugin as it was
OtherDirectoriesKept ==
    (/\ ret = NothingReturned
     /\ ret'.op \in { "install_from_file", "uninstall" }) =>
        \A k \in DOMAIN StoredPlugins :
            StoredPlugins[k].id # ret'.pluginId =>
                tree'[sanitize_plugin_id(StoredPlugins[k].id)]
                    = tree[sanitize_plugin_id(StoredPlugins[k].id)]

\* C24: for every id made only of the characters [A-Za-z0-9._-], sanitize is
\* the identity; hence two installed plugins with distinct ids never share
\* an install directory, and installing, reinstalling or uninstalling one
\* plugin never deletes or overwrites a file under the directory of another
\* installed plugin.
C24_DirectoriesAreDisjoint ==
    /\ [](SanitizeIsIdentity /\ DistinctDirectories)
    /\ [][OtherDirectoriesKept]_vars

\* q is installed and the install of the archive whose manifest has the id
\* "." has failed: the directory of q is gone, its records are in the store
C24_Witness ==
    /\ ret = Returned("install_from_file", IdDot, "Failed to remove plugin directory", None)
    /\ validate_plugin_id(IdDot)
    /\ sanitize_plugin_id(IdDot) = IdDot
    /\ IsInstalled(IdQ)
    /\ tree[sanitize_plugin_id(IdQ)] = {}
    /\ ~PathExists(tree, InstalledOf(IdQ).entryPath)

\* the store file cannot be parsed as a store, or there is none
Unreadable == storeFile.kind \in { "corrupt", "missing" }

\* list-installed and get-lock-records of an unreadable store file return
\* empty lists
UnreadableListsEmpty ==
    (ret.op \in { "list_installed", "get_lock_records" } /\ Unreadable) =>
        (ret.result = "Ok" /\ ret.value = Some(<< >>))

\* an install over an unreadable store file succeeds and writes a store that
\* holds the new plugin only
UnreadableInstallStartsAfresh ==
    Unreadable =>
        \A zip_bytes \in { ArchP1, ArchQ1 } :
            LET out == plugin_install_from_file(zip_bytes, NoFault)
            IN  /\ out.result = "Ok"
                /\ out.file.kind = "json"
                /\ Len(out.file.store.installedPlugins) = 1
                /\ out.file.store.installedPlugins[1].id = ArchiveId(zip_bytes)
                /\ Len(out.file.store.lockRecords) = 1
                /\ out.file.store.lockRecords[1].pluginId = ArchiveId(zip_bytes)

\* C25: a store file that exists but cannot be parsed as a store is treated
\* as an empty store: list-installed and get-lock-records return empty
\* lists and a following install succeeds and writes a store holding only
\* the new plugin; a missing store file is likewise read as an empty store.
C25_CorruptStoreReadsEmpty ==
    UnreadableListsEmpty /\ UnreadableInstallStartsAfresh

\* the store file is left truncated by a write that failed and
\* list-installed has returned the parse error
C25_Witness ==
    /\ storeFile = CorruptFile
    /\ ret = Returned("list_installed", << >>, "Failed to parse plugin store JSON", None)
    /\ plugin_install_from_file(ArchP1, NoFault).result = "Failed to parse plugin store JSON"
    /\ plugin_install_from_file(ArchP1, NoFault).file = CorruptFile
    /\ plugin_get_lock_records(tree, storeFile, NoFault).result
           = "Failed to parse plugin store JSON"

\* what holds of a store file that is missing
C25_MissingStoreReadsEmpty ==
    /\ storeFile.kind = "missing" => UnreadableListsEmpty /\ UnreadableInstallStartsAfresh
    /\ storeFile.kind = "corrupt" =>
           /\ ret.op \in { "list_installed", "get_lock_records" } =>
                  ret.result = "Failed to parse plugin store JSON"
           /\ plugin_install_from_file(ArchP1, NoFault).result
                  = "Failed to parse plugin store JSON"

\* the handlers that write the store file, and the errors of reading,
\* parsing and writing it
MutatingOps == { "install_from_file", "uninstall", "enable_disable", "update_permissions" }

ReadErrors == { "Failed to read plugin store file", "Failed to parse plugin store JSON" }

WriteErrors == { "Failed to save plugin store file" }

\* a mutating handler has returned an error of that kind
StoreFailure(errors) ==
    /\ ret = NothingReturned
    /\ ret'.op \in MutatingOps
    /\ ret'.result \in errors

\* C26: when reading, parsing or writing the store file fails during
\* install, uninstall, enable-disable or update-permissions, the handler
\* returns an error and the persisted store is exactly as it was before the
\* call.
C26_StoreFailureKeepsStore ==
    [][StoreFailure(ReadErrors \cup WriteErrors) =>
           (ret'.value = None /\ storeFile' = storeFile)]_vars

\* what holds: a failure to read or to parse leaves the store file as it
\* was, a failure to write leaves it as it was or truncated
C26_ReadFailureKeepsStore ==
    [][/\ StoreFailure(ReadErrors) => (ret'.value = None /\ storeFile' = storeFile)
       /\ StoreFailure(WriteErrors) =>
              (ret'.value = None /\ storeFile' \in { storeFile, CorruptFile })]_vars

\* enable-disable of p, which is on disk, has failed in the write of the
\* store file, and the store file is left truncated
C26_Witness ==
    /\ ret = Returned("enable_disable", IdP, "Failed to save plugin store file", None)
    /\ storeFile = CorruptFile
    /\ tree[sanitize_plugin_id(IdP)] # {}

\* the process has ended during a write of the store file
Crashed == ret.op = "crash"

\* C27: a store write that is interrupted by a crash of the process, at any
\* point, never leaves the store file as unparseable JSON: after the crash
\* the file holds the complete previous store or the complete new store.
C27_CrashKeepsStoreParseable ==
    Crashed => storeFile.kind \in { "missing", "json" }

\* the process ended while enable-disable wrote the store of p, which is on
\* disk; the store file is left truncated
C27_Witness ==
    /\ Crashed
    /\ storeFile = CorruptFile
    /\ tree[sanitize_plugin_id(IdP)] # {}
    /\ plugin_list_installed(tree, storeFile, NoFault).result
           = "Failed to parse plugin store JSON"

\* the lines of the log that a newline has closed, each the pieces before
\* its newline
RECURSIVE ClosedLines(_, _)
ClosedLines(pieces, open) ==
    IF pieces = << >> THEN << >>
    ELSE IF Head(pieces).part = "newline"
    THEN << open >> \o ClosedLines(Tail(pieces), << >>)
    ELSE ClosedLines(Tail(pieces), Append(open, Head(pieces)))

\* the JSON object of one call, as append_audit_log writes it
ObjectOf(line) == SubSeq(AuditPieces(line), 1, 3)

\* text is the complete JSON object of exactly one call
IsOneObject(text) == text # << >> /\ text = ObjectOf(text[1].of)

\* every line that is closed is the object of one call
LinesAreWhole ==
    \A i \in DOMAIN ClosedLines(auditLog, << >>) :
        IsOneObject(ClosedLines(auditLog, << >>)[i])

\* the calls whose append has returned have a line of their own
NoLineIsLost ==
    \A w \in Workers :
        (workers[w].pc = "returned" /\ workers[w].call.op = "host_call"
         /\ workers[w].result \notin { "Plugin is not installed", "Plugin is disabled" })
            => \E i \in DOMAIN ClosedLines(auditLog, << >>) :
                   ClosedLines(auditLog, << >>)[i]
                       = ObjectOf(AuditLine(workers[w].call.pluginId,
                                            workers[w].call.operation,
                                            workers[w].call.payload))

\* C28: when several host-call handlers append to the audit log at the same
\* time, their writes interleave only at line boundaries: every line of the
\* log is the complete JSON object of exactly one call, never a mix of
\* fragments of two calls, and no call's line is lost.
C28_AppendsInterleaveAtLines == LinesAreWhole /\ NoLineIsLost

\* both workers have returned from append_audit_log, the two calls differ,
\* and the first line of the log holds pieces of both
C28_Witness ==
    /\ \A w \in Workers : workers[w].pc = "returned" /\ workers[w].call.op = "host_call"
    /\ workers["w1"].call # workers["w2"].call
    /\ Len(ClosedLines(auditLog, << >>)) = 2
    /\ \E i, j \in DOMAIN ClosedLines(auditLog, << >>)[1] :
           ClosedLines(auditLog, << >>)[1][i].of # ClosedLines(auditLog, << >>)[1][j].of

\* the installed record and the lock record of plugin id in a store file
RecordsIn(file, id) ==
    [ plugins |-> SelectSeq(file.store.installedPlugins, LAMBDA p : p.id = id),
      locks   |-> SelectSeq(file.store.lockRecords, LAMBDA r : r.pluginId = id) ]

\* a handler that writes the store for one plugin leaves the records of
\* every other plugin as they are in the file
OtherRecordsKept ==
    \A w \in Workers :
        (workers[w].pc = "loaded" /\ workers'[w].pc = "returned")
            => \A id \in PluginIds \ { workers[w].call.pluginId } :
                   RecordsIn(storeFile', id) = RecordsIn(storeFile, id)

\* C29: operations on different plugin ids are independent: when mutating
\* handlers for plugin A and for plugin B run in parallel, the final
\* installed record and lock record of A are the same as if only A's
\* operations had run, and likewise for B; no update of one plugin is lost
\* or reverted by a concurrent operation on the other.
C29_PluginsAreIndependent == [][OtherRecordsKept]_vars

\* the installs of p and of q ran in parallel and both returned Ok; q is on
\* disk and its record is not in the store
C29_Witness ==
    /\ workers["w1"] = ReturnedOn([ op |-> "install_from_file", pluginId |-> IdP,
                                    zip_bytes |-> ArchP1 ], "Ok")
    /\ workers["w2"] = ReturnedOn([ op |-> "install_from_file", pluginId |-> IdQ,
                                    zip_bytes |-> ArchQ1 ], "Ok")
    /\ tree[sanitize_plugin_id(IdQ)] # {}
    /\ RecordsIn(storeFile, IdQ).plugins = << >>
    /\ RecordsIn(storeFile, IdP).plugins # << >>

\* the records in the value a handler returned
ReturnedRecords ==
    IF ret.result # "Ok" THEN {}
    ELSE IF ret.op = "list_installed"
    THEN { Unwrap(ret.value)[i] : i \in DOMAIN Unwrap(ret.value) }
    ELSE IF ret.op \in { "enable_disable", "update_permissions" }
    THEN { Unwrap(ret.value) }
    ELSE {}

\* the entry file of a record is on disk
EntryFileOnDisk(record) ==
    \E v \in tree[record.entryPath.dir] :
        /\ v.version = record.entryPath.version
        /\ \E f \in v.files : f.place = record.entryPath.place

\* the content of the entry file of a record
EntryFileContent(record) ==
    LET v == CHOOSE v \in tree[record.entryPath.dir] :
                 v.version = record.entryPath.version
    IN  (CHOOSE f \in v.files : f.place = record.entryPath.place).content

\* C30: every record returned by list-installed, enable-disable and
\* update-permissions carries entrySource only if the record is enabled: a
\* record with enabled=false is returned with entrySource absent, and an
\* enabled record is returned with the current content of its entry file,
\* absent if the file cannot be read.
C30_ReturnedRecordsAreHydrated ==
    \A record \in ReturnedRecords :
        IF ~record.enabled THEN record.entrySource = None
        ELSE IF EntryFileOnDisk(record)
        THEN record.entrySource = Some(EntryFileContent(record))
        ELSE record.entrySource = None

\* list-installed has returned q enabled with the content of its entry file
\* and p disabled without entrySource, which the store holds for p
C30_Witness ==
    /\ ret.op = "list_installed"
    /\ \E record \in ReturnedRecords :
           /\ record.id = IdQ
           /\ record.enabled
           /\ record.entrySource = Some("Z")
    /\ \E record \in ReturnedRecords :
           /\ record.id = IdP
           /\ ~record.enabled
           /\ record.entrySource = None
    /\ \E i \in DOMAIN storeFile.store.installedPlugins :
           /\ storeFile.store.installedPlugins[i].id = IdP
           /\ IsSome(storeFile.store.installedPlugins[i].entrySource)

\* enable-disable has returned p enabled, and its entry file is gone
C30_WitnessUnreadable ==
    /\ ret.op = "enable_disable"
    /\ \E record \in ReturnedRecords :
           /\ record.enabled
           /\ ~EntryFileOnDisk(record)
           /\ record.entrySource = None

\* update-permissions has returned p disabled, without entrySource
C30_WitnessPermissions ==
    /\ ret.op = "update_permissions"
    /\ \E record \in ReturnedRecords : ~record.enabled /\ record.entrySource = None

\* C31: entrySource is transient: it is populated only in records served to
\* a caller and only when the plugin is enabled, so after any sequence of
\* operations no installed record persisted in the store file carries an
\* entrySource value, in particular not the record of a disabled plugin.
C31_EntrySourceNotPersisted ==
    \A i \in DOMAIN StoredPlugins : StoredPlugins[i].entrySource = None

\* enable-disable has disabled p and returned it without entrySource; the
\* record of p in the store file is disabled and carries the entrySource
\* the install stored
C31_Witness ==
    /\ ret.op = "enable_disable"
    /\ ret.result = "Ok"
    /\ Unwrap(ret.value).entrySource = None
    /\ InstalledCount(IdP) = 1
    /\ ~InstalledOf(IdP).enabled
    /\ IsSome(InstalledOf(IdP).entrySource)

\* the entries of the index in flight whose id is the requested plugin id
IndexMatches ==
    { Unwrap(reg.index).entries[i] : i \in
          { j \in DOMAIN Unwrap(reg.index).entries :
                Unwrap(reg.index).entries[j].id = reg.pluginId } }

\* semver order of two entries with valid versions
SemverBelow(a, b) ==
    /\ IsSome(VersionParse(a.version))
    /\ IsSome(VersionParse(b.version))
    /\ VersionLess(Unwrap(VersionParse(a.version)), Unwrap(VersionParse(b.version)))

\* the handler takes the index and selects
SelectsFromIndex == reg.pc = "fetching" /\ reg'.pc # "fetching"

\* what the step that selects does: an error if no entry has the id; with a
\* version, the entry of that version or an error; without one, an entry
\* below no match in semver order
SelectionIsRight ==
    SelectsFromIndex =>
        IF IndexMatches = {}
        THEN ret'.result = "Plugin not found in registry index"
        ELSE IF IsSome(reg.version)
        THEN IF \A m \in IndexMatches : m.version # Unwrap(reg.version)
             THEN ret'.result = "Plugin version not found in registry index"
             ELSE reg'.pc = "downloading"
                      => /\ Unwrap(reg'.selected) \in IndexMatches
                         /\ Unwrap(reg'.selected).version = Unwrap(reg.version)
        ELSE reg'.pc = "downloading"
                 => /\ Unwrap(reg'.selected) \in IndexMatches
                    /\ \A m \in IndexMatches : ~SemverBelow(Unwrap(reg'.selected), m)

\* C32: select_registry_entry considers only entries whose id equals the
\* requested plugin id (error if none); with a requested version it returns
\* an entry whose version equals it exactly (error if none); without one it
\* returns the entry with the highest valid semver among the matches, so
\* 1.10.0 is preferred to 1.9.0.
C32_SelectsHighestSemver == [][SelectionIsRight]_vars

\* the index holds 1.10.0, 1.5.x and 1.9.0 of p, no version is requested,
\* and select_registry_entry gives 1.9.0
C32_Witness ==
    /\ reg.pc = "fetching"
    /\ reg.version = None
    /\ SelectEntry(IdP, V1100) \in IndexMatches
    /\ SelectEntry(IdP, V15x) \in IndexMatches
    /\ select_registry_entry(Unwrap(reg.index).entries, reg.pluginId, reg.version).entry
           = Some(SelectEntry(IdP, V190))

\* with entries whose versions all parse, the entry selected without a
\* requested version is the highest in semver order
AllVersionsParse == \A m \in IndexMatches : IsSome(VersionParse(m.version))

C32_SelectsHighestOfValid ==
    [][(SelectsFromIndex /\ AllVersionsParse) => SelectionIsRight]_vars

\* the index holds 1.9.0 and 1.10.0 of p only and 1.10.0 is selected
C32_WitnessValid ==
    /\ reg.pc = "fetching"
    /\ reg.version = None
    /\ AllVersionsParse
    /\ SelectEntry(IdP, V190) \in IndexMatches
    /\ select_registry_entry(Unwrap(reg.index).entries, reg.pluginId, reg.version).entry
           = Some(SelectEntry(IdP, V1100))

\* the record that the last handler saved for the plugin it names, as the
\* handler holds it in memory: install returns the record it pushed,
\* enable-disable and update-permissions return it after
\* hydrate_entry_source, which changes entrySource only
SavedRecordIsReloaded ==
    (ret.result = "Ok" /\ ret.op \in { "install_from_file", "install_from_registry" }
        => /\ InstalledCount(ret.pluginId) = 1
           /\ InstalledOf(ret.pluginId) = Unwrap(ret.value))
    /\ (ret.result = "Ok" /\ ret.op \in { "enable_disable", "update_permissions" }
        => /\ InstalledCount(ret.pluginId) = 1
           /\ [ InstalledOf(ret.pluginId) EXCEPT
                  !.entrySource = Unwrap(ret.value).entrySource ] = Unwrap(ret.value)
           /\ LockOf(ret.pluginId).grantedPermissions
                  = Unwrap(ret.value).grantedPermissions)

C33_WitnessGrantedAt ==
    /\ ret.op = "update_permissions"
    /\ ret.result = "Ok"
    /\ \E i \in DOMAIN InstalledOf(IdP).grantedPermissions :
           IsSome(InstalledOf(IdP).grantedPermissions[i].grantedAt)

\* record b is record a but for the fields named
SameBut(a, b, fields) ==
    /\ DOMAIN a = DOMAIN b
    /\ \A k \in DOMAIN a \ fields : a[k] = b[k]

\* the step is a successful call of the handler op
Succeeds(op) == ret = NothingReturned /\ ret'.op = op /\ ret'.result = "Ok"

\* the step leaves the install tree alone and changes of the store only the
\* named fields of the installed record and of the lock record of the
\* plugin the call names
ChangesOnly(pluginFields, lockFields) ==
    /\ tree' = tree
    /\ Len(StoredPlugins') = Len(StoredPlugins)
    /\ Len(StoredLocks') = Len(StoredLocks)
    /\ \A i \in DOMAIN StoredPlugins :
           IF StoredPlugins[i].id = ret'.pluginId
           THEN SameBut(StoredPlugins[i], StoredPlugins'[i], pluginFields)
           ELSE StoredPlugins'[i] = StoredPlugins[i]
    /\ \A i \in DOMAIN StoredLocks :
           IF StoredLocks[i].pluginId = ret'.pluginId
           THEN SameBut(StoredLocks[i], StoredLocks'[i], lockFields)
           ELSE StoredLocks'[i] = StoredLocks[i]

FrameOfEnableDisable ==
    Succeeds("enable_disable")
        => ChangesOnly({ "enabled", "updatedAt" }, { "enabled", "updatedAt" })

FrameOfUpdatePermissions ==
    Succeeds("update_permissions")
        => ChangesOnly({ "grantedPermissions", "updatedAt" },
                       { "grantedPermissions", "updatedAt" })

\* C34: a successful enable-disable(id, e) changes only the enabled flag and
\* updatedAt of id's installed record and of id's lock record; a successful
\* update-permissions(id, ...) changes only the grants and updatedAt of
\* them; every other field, every record of every other plugin and the
\* install tree are unchanged.
C34_FrameOfFlagsAndGrants == [][FrameOfEnableDisable /\ FrameOfUpdatePermissions]_vars

\* p was disabled after the clock moved on, with q in the store: p carries
\* the time of the call in updatedAt only
C34_Witness ==
    /\ ret.op = "enable_disable"
    /\ ret.result = "Ok"
    /\ InstalledCount(IdQ) = 1
    /\ InstalledCount(IdP) = 1
    /\ ~InstalledOf(IdP).enabled
    /\ ~LockOf(IdP).enabled
    /\ InstalledOf(IdP).updatedAt # InstalledOf(IdP).installedAt
    /\ LockOf(IdP).updatedAt = InstalledOf(IdP).updatedAt

\* update-permissions has granted network:https to p after the clock moved on
C34_WitnessPermissions ==
    /\ ret.op = "update_permissions"
    /\ ret.result = "Ok"
    /\ InstalledOf(IdP).updatedAt # InstalledOf(IdP).installedAt
    /\ \E i \in DOMAIN InstalledOf(IdP).grantedPermissions :
           InstalledOf(IdP).grantedPermissions[i].granted

\* the lock record carries what the installed record carries
Mirrors(lock, plugin) ==
    /\ lock.enabled = plugin.enabled
    /\ lock.grantedPermissions = plugin.grantedPermissions
    /\ lock.version = plugin.version
    /\ lock.trust = plugin.trust
    /\ lock.updatedAt = plugin.updatedAt

\* C35: in every reachable store state each lock record mirrors the
\* installed record with the same id: enabled, grantedPermissions, version,
\* trust and updatedAt are equal, after any sequence of install,
\* enable-disable, update-permissions and uninstall.
C35_LockMirrorsInstalled ==
    /\ \A i \in DOMAIN StoredLocks :
           \E j \in DOMAIN StoredPlugins :
               StoredPlugins[j].id = StoredLocks[i].pluginId
    /\ \A i \in DOMAIN StoredLocks : \A j \in DOMAIN StoredPlugins :
           StoredPlugins[j].id = StoredLocks[i].pluginId
               => Mirrors(StoredLocks[i], StoredPlugins[j])

\* p was installed from the registry, then disabled and granted
\* network:https at a later time; q is installed from a file
C35_Witness ==
    /\ InstalledCount(IdP) = 1
    /\ InstalledCount(IdQ) = 1
    /\ LockOf(IdP).trust = "verified"
    /\ ~LockOf(IdP).enabled
    /\ LockOf(IdP).updatedAt # InstalledOf(IdP).installedAt
    /\ \E i \in DOMAIN LockOf(IdP).grantedPermissions :
           LockOf(IdP).grantedPermissions[i].granted
    /\ LockOf(IdQ).trust = "unverified"

\* the entry file of an installed record exists on disk, under
\* installed/<id>/<version>/
EntryFileExists(plugin) ==
    /\ plugin.entryPath.dir = sanitize_plugin_id(plugin.id)
    /\ plugin.entryPath.version = plugin.version
    /\ IsSome(ReadToString(tree, plugin.entryPath))

\* version and sha256 of a lock record describe the tree on disk for its
\* id: the only version directory is that of the lock, and it holds what an
\* archive with that digest extracts to
LockDescribesTree(lock) ==
    \E zip_bytes \in ArchivePool :
        /\ zip_bytes.zipOk
        /\ compute_sha256_hex(zip_bytes) = lock.sha256
        /\ tree[sanitize_plugin_id(lock.pluginId)]
               = { extract_zip_to_directory(zip_bytes,
                                            EmptyVersionDir(lock.version)).vdir }

\* C36: after any sequence of operations, including installs that fail
\* after the prior directory was wiped and uninstalls whose store write
\* fails, every installed record in the store refers to an entry file that
\* exists on disk under installed/<id>/<version>/, and every lock record's
\* version and sha256 describe the tree that is on disk for that id.
C36_StoreDescribesDisk ==
    /\ \A i \in DOMAIN StoredPlugins : EntryFileExists(StoredPlugins[i])
    /\ \A i \in DOMAIN StoredLocks : LockDescribesTree(StoredLocks[i])

\* the install of an archive of p 1.1.0 that does not extract has failed:
\* the store holds p 1.0.0 and the directory of 1.0.0 is gone
C36_Witness ==
    /\ ret.op = "install_from_file"
    /\ ret.result = "Archive entry contains invalid path"
    /\ InstalledCount(IdP) = 1
    /\ InstalledOf(IdP).version = V100
    /\ ~HasVersion(tree, sanitize_plugin_id(IdP), V100)
    /\ ~EntryFileExists(InstalledOf(IdP))

\* after a successful install, enable-disable or update-permissions the
\* records of the plugin it names describe the disk
C36_SuccessDescribesDisk ==
    (ret.result = "Ok" /\ ret.op \in { "install_from_file", "install_from_registry" })
        => /\ EntryFileExists(InstalledOf(ret.pluginId))
           /\ LockDescribesTree(LockOf(ret.pluginId))

\* the step is the successful return of plugin_install_from_registry
RegistryInstallSucceeds ==
    /\ reg.pc = "downloading"
    /\ ret'.op = "install_from_registry"
    /\ ret'.result = "Ok"

\* the store holds one record of the requested id, with the version and the
\* manifest of the selected entry, and the records of every other id are
\* as before
InstallsSelectedEntry ==
    RegistryInstallSucceeds =>
        /\ Cardinality({ i \in DOMAIN StoredPlugins' :
                             StoredPlugins'[i].id = reg.pluginId }) = 1
        /\ \A i \in DOMAIN StoredPlugins' :
               StoredPlugins'[i].id = reg.pluginId
                   => /\ StoredPlugins'[i].version = Unwrap(reg.selected).version
                      /\ StoredPlugins'[i].manifest = Unwrap(reg.selected).manifest
        /\ \A id \in PluginIds \ { reg.pluginId } :
               RecordsIn(storeFile', id) = RecordsIn(storeFile, id)

\* C37: a successful install-from-registry(registryUrl, pluginId, version?)
\* adds or replaces exactly the installed record whose id is pluginId and
\* whose version is the selected registry entry's version, and the stored
\* manifest is the one that was cross-checked and validated from the
\* registry entry; no record of a different plugin id is replaced.
C37_InstallsSelectedEntry == [][InstallsSelectedEntry]_vars

\* install-from-registry of p has returned Ok with the record of q: the
\* store holds no record of p, and the record of q, which was installed from
\* a file, is now the one of the registry install
C37_Witness ==
    /\ ret.op = "install_from_registry"
    /\ ret.pluginId = IdP
    /\ ret.result = "Ok"
    /\ Unwrap(ret.value).id = IdQ
    /\ InstalledCount(IdP) = 0
    /\ InstalledCount(IdQ) = 1
    /\ InstalledOf(IdQ).installSource = "registry"
    /\ InstalledOf(IdQ).trust = "verified"

\* when the archive downloaded holds the manifest of the selected entry, the
\* install stores that entry's id, version and manifest
ArchiveHoldsSelectedManifest ==
    Unwrap(reg.download).bytes.manifest = Some(Unwrap(reg.selected).manifest)

C37_InstallsSelectedWhenArchiveAgrees ==
    [][(RegistryInstallSucceeds /\ ArchiveHoldsSelectedManifest)
           => InstallsSelectedEntry]_vars

\* the requests a successful update-permissions step may be the call of:
\* those that, made in the state before the step, leave the store of the
\* state after it
RequestsOfStep ==
    { P \in GrantRequests :
        LET out == plugin_update_permissions(tree, storeFile, ret'.pluginId, P, NoFault)
        IN  out.result = "Ok" /\ out.file = storeFile' }

\* the stored record of the plugin the step names, after the step
UpdatedPlugin ==
    StoredPlugins'[FindIndex(StoredPlugins', LAMBDA p : p.id = ret'.pluginId)]

IsGranted(plugin, permission) ==
    \E i \in DOMAIN plugin.grantedPermissions :
        /\ plugin.grantedPermissions[i].permission = permission
        /\ plugin.grantedPermissions[i].granted

FirstEntryFor(P, permission) == FindIndex(P, LAMBDA item : item.permission = permission)

\* the stored grants have one entry per declared optional permission, in the
\* order of the manifest: nothing of the grants before the call is kept
GrantsAreRebuilt(plugin) ==
    /\ Len(plugin.grantedPermissions) = Len(plugin.manifest.optionalPermissions)
    /\ \A i \in DOMAIN plugin.grantedPermissions :
           plugin.grantedPermissions[i].permission = plugin.manifest.optionalPermissions[i]

\* C38 as stated: after a successful update-permissions(id, P) a declared
\* optional permission is granted exactly when P contains an entry for it
\* with granted=true.
C38_GrantedWhenSomeEntryGrants ==
    [][Succeeds("update_permissions") =>
         \A P \in RequestsOfStep :
             /\ GrantsAreRebuilt(UpdatedPlugin)
             /\ \A i \in DOMAIN UpdatedPlugin.manifest.optionalPermissions :
                  LET permission == UpdatedPlugin.manifest.optionalPermissions[i]
                  IN  IsGranted(UpdatedPlugin, permission)
                          <=> \E j \in DOMAIN P : /\ P[j].permission = permission
                                                  /\ P[j].granted]_vars

\* C38: update-permissions replaces the whole grant set rather than merging:
\* after a successful update-permissions(id, P), a declared optional
\* permission is granted exactly when the first entry of P for it has
\* granted=true, so a permission that was granted before and is not
\* mentioned in P becomes granted=false; grantedAt is whatever the caller
\* passed in that entry, and absent where P has no entry.
C38_GrantedWhenFirstEntryGrants ==
    [][Succeeds("update_permissions") =>
         \A P \in RequestsOfStep :
             /\ GrantsAreRebuilt(UpdatedPlugin)
             /\ \A i \in DOMAIN UpdatedPlugin.grantedPermissions :
                  LET grant == UpdatedPlugin.grantedPermissions[i]
                      first == FirstEntryFor(P, grant.permission)
                  IN  /\ grant.granted <=> (first # 0 /\ P[first].granted)
                      /\ grant.grantedAt = IF first # 0 THEN P[first].grantedAt
                                                         ELSE None]_vars

\* update-permissions of q has succeeded with a request that does not grant
\* network:https: the stored record has it refused without a time, next to
\* ui:mount granted at the time the caller passed
C38_Witness ==
    /\ ret.op = "update_permissions"
    /\ ret.result = "Ok"
    /\ ret.pluginId = IdQ
    /\ InstalledCount(IdQ) = 1
    /\ \E i, j \in DOMAIN InstalledOf(IdQ).grantedPermissions :
           /\ InstalledOf(IdQ).grantedPermissions[i] = Grant("network:https", FALSE, None)
           /\ InstalledOf(IdQ).grantedPermissions[j] = Grant("ui:mount", TRUE, GrantedAt)

\* a step of update-permissions that takes away a grant: network:https was
\* granted to the plugin before the call and is not after it
GrantIsTakenAway ==
    /\ Succeeds("update_permissions")
    /\ InstalledCount(ret'.pluginId) = 1
    /\ IsGranted(InstalledOf(ret'.pluginId), "network:https")
    /\ ~IsGranted(UpdatedPlugin, "network:https")

C38_NoGrantIsTakenAway == [][~GrantIsTakenAway]_vars

\* the stored record of id has network:https granted: by C39's own account
\* this is the standing of "an update-permissions call granting network:https
\* has succeeded since the most recent install and has not been overridden"
GrantInForce(file, id) ==
    \E i \in DOMAIN file.store.installedPlugins :
        /\ file.store.installedPlugins[i].id = id
        /\ IsGranted(file.store.installedPlugins[i], "network:https")

\* the step sends a request: the one of the handler, or the one with which
\* the client follows a redirect
IssuesRequest == hc'.pc = "awaiting" /\ hc' # hc

\* the step sends the request of the handler itself
IssuesFirstRequest == hc.pc = "idle" /\ hc'.pc = "awaiting"

\* only a successful update-permissions of id brings the grant into force
GrantOnlyByUpdatePermissions ==
    \A id \in PluginIds :
        (GrantInForce(storeFile', id) /\ ~GrantInForce(storeFile, id))
            => Succeeds("update_permissions") /\ ret'.pluginId = id

\* a successful install leaves the plugin it installed without the grant
InstallRevokesGrant ==
    (\/ Succeeds("install_from_file")
     \/ (ret'.op = "install_from_registry" /\ ret' # ret /\ ret'.result = "Ok"))
        => ~GrantInForce(storeFile', Unwrap(ret'.value).id)

\* no stored manifest carries network:https in its core permissions
NoCoreNetworkPermission ==
    \A i \in DOMAIN StoredPlugins' :
        \A j \in DOMAIN StoredPlugins'[i].manifest.permissions :
            StoredPlugins'[i].manifest.permissions[j] # "network:https"

\* C39: a network:get_json or network:get_text host-call issues an outbound
\* request only if an update-permissions call granting network:https has
\* succeeded since the plugin's most recent install and has not been
\* overridden by a later update-permissions: the grant is in force at every
\* request, only update-permissions brings it into force, no validated
\* manifest carries network:https as a core permission, and a reinstall
\* revokes the grant.
C39_RequestNeedsStandingGrant ==
    [][/\ IssuesRequest => GrantInForce(storeFile, hc'.pluginId)
       /\ GrantOnlyByUpdatePermissions
       /\ InstallRevokesGrant
       /\ NoCoreNetworkPermission]_vars

\* p is installed and enabled and has no grant of network:https, and a
\* request on its behalf to the host a redirect named is under way
C39_Witness ==
    /\ hc.pc = "awaiting"
    /\ hc.pluginId = IdP
    /\ hc.url = UrlEvil
    /\ InstalledCount(IdP) = 1
    /\ InstalledOf(IdP).enabled
    /\ ~GrantInForce(storeFile, IdP)

\* the request of the handler itself is sent under a grant in force
C39_FirstRequestNeedsStandingGrant ==
    [][/\ IssuesFirstRequest => GrantInForce(storeFile, hc'.pluginId)
       /\ GrantOnlyByUpdatePermissions
       /\ InstallRevokesGrant
       /\ NoCoreNetworkPermission]_vars

\* a request of the handler itself is under way for p, which holds the grant
C39_WitnessFirstRequest ==
    /\ hc.pc = "awaiting"
    /\ hc.pluginId = IdP
    /\ hc.url = UrlAllowed
    /\ GrantInForce(storeFile, IdP)

\* the plugin whose records the handler that returns in this step has
\* written: the one it installed, or the one its call names; none when the
\* step is not the successful return of a mutating handler
WrittenPlugin ==
    IF ret' = ret \/ ret'.result # "Ok" THEN None
    ELSE IF ret'.op \in { "install_from_file", "install_from_registry" }
    THEN Some(Unwrap(ret'.value).id)
    ELSE IF ret'.op \in { "uninstall", "enable_disable", "update_permissions" }
    THEN Some(ret'.pluginId)
    ELSE None

\* the records of a plugin in the store change only in the step in which a
\* handler that writes that plugin returns Ok: what any handler completed
\* is in the store until then, whichever handlers were suspended meanwhile
NoUpdateIsLost ==
    \A id \in PluginIds :
        RecordsIn(storeFile', id) # RecordsIn(storeFile, id) => WrittenPlugin = Some(id)

\* the segments of a suspending handler leave the store file as it is, but
\* for the last one of the registry install, which holds the core install:
\* no segment before a suspension saves, and a host call never does
SuspensionSavesNothing ==
    ((reg' # reg \/ hc' # hc) /\ reg.pc # "downloading") => storeFile' = storeFile

\* the invariants of the store: one installed record and one lock record per
\* id, the lock record the mirror of the installed one, and one grant entry
\* for every optional permission the manifest declares
StoreInvariants ==
    \A id \in PluginIds :
        /\ InstalledCount(id) <= 1
        /\ LockCount(id) = InstalledCount(id)
        /\ IsInstalled(id) =>
              /\ Mirrors(LockOf(id), InstalledOf(id))
              /\ { InstalledOf(id).grantedPermissions[i].permission :
                       i \in DOMAIN InstalledOf(id).grantedPermissions }
                   = { InstalledOf(id).manifest.optionalPermissions[i] :
                           i \in DOMAIN InstalledOf(id).manifest.optionalPermissions }

\* C40: no handler holds a store snapshot across a network suspension point
\* and then writes it back: the load and the save of every mutating handler
\* lie in one segment, so when handlers interleave only at network
\* suspension points no completed store update is lost or overwritten by
\* another handler, and the store invariants hold under every such
\* interleaving.
C40_NoSnapshotAcrossSuspension ==
    [][NoUpdateIsLost /\ SuspensionSavesNothing /\ StoreInvariants']_vars

\* the registry install of p is suspended at its download, and the handler
\* that disabled q has completed meanwhile
C40_Witness ==
    /\ reg.pc = "downloading"
    /\ reg.pluginId = IdP
    /\ ret.op = "enable_disable"
    /\ ret.pluginId = IdQ
    /\ ret.result = "Ok"
    /\ ~InstalledOf(IdQ).enabled

\* the registry install of p has returned Ok while a host call of p is
\* suspended at its request; q is in the store, disabled
C40_WitnessReturned ==
    /\ ret.op = "install_from_registry"
    /\ ret.result = "Ok"
    /\ hc.pc = "awaiting"
    /\ IsInstalled(IdQ)
    /\ ~InstalledOf(IdQ).enabled
    /\ InstalledOf(IdP).installSource = "registry"

=============================================================================
